---- MODULE Spec2Model ----
(***************************************************************************)
(* Model of the multi-stage LLM logic verification pipeline:               *)
(* config.py (model registry), llm_client.py (call_model with retries,     *)
(* parse_json_response), layers/answering_layer.py and                     *)
(* layers/verification_layer.py, driven by system_coordinator.py.          *)
(*                                                                         *)
(* Representation.  A model identifier is held as the list of its          *)
(* '/'-separated segments, i.e. the value of model_key.split('/'):         *)
(* 'groq/llama-3.3-70b' is <<"groq", "llama-3.3-70b">>.  A Python dict is  *)
(* a record over the keys the code reads; the value Absent marks a key     *)
(* that is not in the dict, and None is Python's None.  Provider texts are *)
(* concrete strings; json.loads and the regular expressions of the parser  *)
(* are given by their values on those strings.  The Chinese string         *)
(* literals of the source are written as ASCII stand-ins.                  *)
(***************************************************************************)
EXTENDS Integers, Sequences, FiniteSets, TLC

VARIABLES entry, models, verification_models, pc, i, j, answers,
          verification_results, call, provider_log, client_calls, connected,
          question, correction_model, verified_for, verify_calls, tasks, ti,
          correction_results, correction_calls, decision, orchestrator,
          decision_model, result, parser, arguments, slept

vars == <<entry, models, verification_models, pc, i, j, answers,
          verification_results, call, provider_log, client_calls, connected,
          question, correction_model, verified_for, verify_calls, tasks, ti,
          correction_results, correction_calls, decision, orchestrator,
          decision_model, result, parser, arguments, slept>>

\* the inputs of a run besides the model lists
run_inputs == <<question, correction_model>>
\* history of the verification stage: the answer each record was produced
\* for, and the verifier invocations with their prompts
verify_log == <<verified_for, verify_calls>>
\* the state of CorrectionLayer.correct_answers
correction_state == <<tasks, ti, correction_results, correction_calls>>
\* the class whose process_question runs, the decision model and the list
\* arguments it was given and what has become of the run.  slept (not in
\* the group): the layer's asyncio.sleep(2) has run since the layer's last
\* model invocation began
run_state == <<orchestrator, decision_model, result, parser, arguments>>

(***************************************************************************)
(* Bounds                                                                  *)
(***************************************************************************)
MaxModels == 2
MaxVerifiers == 2

(***************************************************************************)
(* Sentinels                                                               *)
(***************************************************************************)
Absent == "<absent>"
None == "<None>"
NoModel == << >>
\* a JSON array where a model name is expected: Python holds it as a list
ListValue == <<"<list>">>

(***************************************************************************)
(* config.py                                                               *)
(***************************************************************************)
\* MAX_RETRIES = int(os.getenv('MAX_RETRIES', 5))
MAX_RETRIES == 5

AVAILABLE_MODELS ==
  [p \in {"openai", "anthropic", "google", "groq", "openrouter"} |->
     CASE p = "openai" -> {"gpt-4o", "gpt-4o-mini", "gpt-4-turbo", "gpt-3.5-turbo"}
       [] p = "anthropic" -> {"claude-3-5-sonnet", "claude-3-haiku", "claude-3-opus"}
       [] p = "google" -> {"gemini-pro", "gemini-flash"}
       [] p = "groq" -> {"llama-3-70b-8192", "llama-3.3-70b"}
       [] p = "openrouter" -> {"deepseek-r1", "gemini-2-flash", "mistral-7b"}]

\* Identifiers the inputs are drawn from: two configured ones, one with a
\* configured provider and a model name of another provider's table, and one
\* that does not split into two segments.
ModelIds ==
  { <<"groq", "llama-3-70b-8192">>,
    <<"groq", "llama-3.3-70b">>,
    <<"openai", "llama-3.3-70b">>,
    <<"groq", "llama-3.3-70b", "x">> }

\* is_model_available with the model half of the test left out
is_model_available_provider_only(model_key) ==
  IF Len(model_key) = 2
    THEN model_key[1] \in DOMAIN AVAILABLE_MODELS
    ELSE FALSE

\* provider, model = model_key.split('/') raises unless there are exactly
\* two segments; the bare except turns that into False.
is_model_available(model_key) ==
  IF Len(model_key) = 2
    THEN /\ model_key[1] \in DOMAIN AVAILABLE_MODELS
         /\ model_key[2] \in AVAILABLE_MODELS[model_key[1]]
    ELSE FALSE

(***************************************************************************)
(* Strings                                                                 *)
(***************************************************************************)
RECURSIVE KeyStr(_)
\* '/'.join(segments): the identifier as the string it is
KeyStr(k) ==
  IF Len(k) = 0 THEN ""
  ELSE IF Len(k) = 1 THEN k[1]
  ELSE k[1] \o "/" \o KeyStr(Tail(k))

(***************************************************************************)
(* Provider texts and the library functions the parser applies to them     *)
(***************************************************************************)
T_ANSWER == "{\"answer\": \"No\", \"reasoning\": \"r\"}"
T_MULTILINE == "{\"answer\": \"No\", \"reasoning\": \"a\nb\"}"
T_MULTILINE_FIXED == "{\"answer\": \"No\", \"reasoning\": \"a b\"}"
T_FRAGMENT == "\"answer\": \"No\" and \"reasoning\": \"because"
T_PLAIN == "I think the answer is No"
T_EMBEDDED == "Sure! {\"answer\": \"No\", \"reasoning\": \"r\"} done"
\* '[' repeated more often than the interpreter's recursion limit allows
T_DEEP == "[[[[...[[[["
T_ERROR == "{\"error\": \"e\"}"
T_NUMBER == "42"
T_CORRECT == "{\"verdict\": \"Correct\", \"error_reason\": \"\"}"
T_INCORRECT == "{\"verdict\": \"Incorrect\", \"error_reason\": \"bad\"}"
T_RETARGET == "{\"verdict\": \"Correct\", \"target_model\": \"groq/llama-3.3-70b\"}"
T_PARTLY == "{\"verdict\": \"Partially Correct\", \"error_reason\": \"\"}"
T_INCORRECT_2 == "{\"verdict\": \"Incorrect\", \"error_reason\": \"worse\"}"
T_WRONG_TARGET == "{\"verdict\": \"Incorrect\", \"error_reason\": \"bad\", \"target_model\": \"groq/llama-3.3-70b\"}"
T_LIST_TARGET == "{\"verdict\": \"Incorrect\", \"target_model\": [\"x\"]}"
T_DECISION == "{\"final_answer\": \"No\", \"reasoning\": \"r\", \"evidence_analysis\": \"ev\"}"
T_REVISED == "{\"revised_answer\": \"Yes\", \"revised_reasoning\": \"rr\", \"original_error_acknowledgment\": \"ack\"}"

\* str(e) of the exceptions the code can meet
TYPE_ERROR_NONE == "the JSON object must be str, bytes or bytearray, not NoneType"
TYPE_ERROR_INT == "argument of type 'int' is not iterable"
RECURSION_ERROR == "maximum recursion depth exceeded while decoding a JSON array from a unicode string"
TYPE_ERROR_UNHASHABLE == "unhashable type: 'list'"
KEY_ERROR_CONFIDENCE_LEVEL == "'confidence_level'"

\* the literals of parse_json_response's best-effort tier
ANSWER_PARSE_FAILED == "PARSE_FAILED"
REASONING_PARSE_FAILED == "REASONING_PARSE_FAILED"
PARSE_WARNING_SUFFIX == "...(JSON format error, partial content only)"

\* the dict with no key
EmptyDict ==
  [answer |-> Absent, reasoning |-> Absent, verdict |-> Absent,
   error_reason |-> Absent, target_model |-> NoModel, error |-> Absent,
   raw_response |-> Absent, parse_warning |-> FALSE,
   revised_answer |-> Absent, revised_reasoning |-> Absent,
   original_error_acknowledgment |-> Absent, final_answer |-> Absent,
   evidence_analysis |-> Absent]

\* dict.get(key, default) for the string-valued keys
Get(d, key, default) == IF d[key] = Absent THEN default ELSE d[key]

\* json.loads(text): what it raises, whether the value is a dict, the dict
json_loads(text) ==
  CASE text = None ->
         [raises |-> "TypeError", isdict |-> FALSE, obj |-> EmptyDict]
    [] text = T_ANSWER ->
         [raises |-> "none", isdict |-> TRUE,
          obj |-> [EmptyDict EXCEPT !.answer = "No", !.reasoning = "r"]]
    [] text = T_MULTILINE_FIXED ->
         [raises |-> "none", isdict |-> TRUE,
          obj |-> [EmptyDict EXCEPT !.answer = "No", !.reasoning = "a b"]]
    [] text = T_ERROR ->
         [raises |-> "none", isdict |-> TRUE,
          obj |-> [EmptyDict EXCEPT !.error = "e"]]
    [] text = T_NUMBER ->
         [raises |-> "none", isdict |-> FALSE, obj |-> EmptyDict]
    [] text = T_CORRECT ->
         [raises |-> "none", isdict |-> TRUE,
          obj |-> [EmptyDict EXCEPT !.verdict = "Correct", !.error_reason = ""]]
    [] text = T_INCORRECT ->
         [raises |-> "none", isdict |-> TRUE,
          obj |-> [EmptyDict EXCEPT !.verdict = "Incorrect", !.error_reason = "bad"]]
    [] text = T_PARTLY ->
         [raises |-> "none", isdict |-> TRUE,
          obj |-> [EmptyDict EXCEPT !.verdict = "Partially Correct",
                                    !.error_reason = ""]]
    [] text = T_RETARGET ->
         [raises |-> "none", isdict |-> TRUE,
          obj |-> [EmptyDict EXCEPT !.verdict = "Correct",
                                    !.target_model = <<"groq", "llama-3.3-70b">>]]
    [] text = T_INCORRECT_2 ->
         [raises |-> "none", isdict |-> TRUE,
          obj |-> [EmptyDict EXCEPT !.verdict = "Incorrect", !.error_reason = "worse"]]
    [] text = T_WRONG_TARGET ->
         [raises |-> "none", isdict |-> TRUE,
          obj |-> [EmptyDict EXCEPT !.verdict = "Incorrect",
                                    !.error_reason = "bad",
                                    !.target_model = <<"groq", "llama-3.3-70b">>]]
    [] text = T_REVISED ->
         [raises |-> "none", isdict |-> TRUE,
          obj |-> [EmptyDict EXCEPT !.revised_answer = "Yes",
                                    !.revised_reasoning = "rr",
                                    !.original_error_acknowledgment = "ack"]]
    [] text = T_DEEP ->
         [raises |-> "RecursionError", isdict |-> FALSE, obj |-> EmptyDict]
    [] text = T_LIST_TARGET ->
         [raises |-> "none", isdict |-> TRUE,
          obj |-> [EmptyDict EXCEPT !.verdict = "Incorrect",
                                    !.target_model = ListValue]]
    [] text = T_DECISION ->
         [raises |-> "none", isdict |-> TRUE,
          obj |-> [EmptyDict EXCEPT !.final_answer = "No", !.reasoning = "r",
                                    !.evidence_analysis = "ev"]]
    [] OTHER ->
         [raises |-> "JSONDecodeError", isdict |-> FALSE, obj |-> EmptyDict]

\* re.search(r'\{.*\}', text, re.DOTALL): the matched block, Absent if none
search_block(text) ==
  CASE text = T_MULTILINE -> T_MULTILINE
    [] text = T_EMBEDDED -> T_ANSWER
    [] OTHER -> Absent

\* re.sub(reasoning_pattern, fix_reasoning, json_text): line breaks inside
\* the reasoning value become single spaces
fix_reasoning(json_text) ==
  CASE json_text = T_MULTILINE -> T_MULTILINE_FIXED
    [] OTHER -> json_text

\* re.search(r'"answer":\s*"([^"]*)"', text): group 1, Absent if no match
answer_match(text) ==
  CASE text = T_FRAGMENT -> "No"
    [] OTHER -> Absent

\* re.search(r'"reasoning":\s*"([^"]{0,100})', text): group 1, Absent if none
reasoning_match(text) ==
  CASE text = T_FRAGMENT -> "because"
    [] OTHER -> Absent

(***************************************************************************)
(* llm_client.py: parse_json_response                                      *)
(***************************************************************************)
\* the best-effort tier: re.search on a str cannot raise, so this tier
\* always returns and the 'Failed to parse JSON response' return after it
\* is never reached
best_effort(text) ==
  [EmptyDict EXCEPT
     !.answer = IF answer_match(text) # Absent
                  THEN answer_match(text) ELSE ANSWER_PARSE_FAILED,
     !.reasoning = (IF reasoning_match(text) # Absent
                      THEN reasoning_match(text) ELSE REASONING_PARSE_FAILED)
                   \o PARSE_WARNING_SUFFIX,
     !.parse_warning = TRUE]

\* result: raised (an exception leaves the function, exc is its message) or
\* the returned value (a dict obj, or a value that is not a dict)
parse_json_response(response_text) ==
  LET strict == json_loads(response_text)
      block == search_block(response_text)
      repaired == json_loads(fix_reasoning(block))
  IN  IF strict.raises = "TypeError"
        THEN [raised |-> TRUE, exc |-> TYPE_ERROR_NONE, isdict |-> FALSE,
              obj |-> EmptyDict]
      ELSE IF strict.raises = "RecursionError"
        THEN [raised |-> TRUE, exc |-> RECURSION_ERROR, isdict |-> FALSE,
              obj |-> EmptyDict]
      ELSE IF strict.raises = "none"
        THEN [raised |-> FALSE, exc |-> Absent, isdict |-> strict.isdict,
              obj |-> strict.obj]
      ELSE IF block # Absent /\ repaired.raises = "none"
        THEN [raised |-> FALSE, exc |-> Absent, isdict |-> repaired.isdict,
              obj |-> repaired.obj]
      ELSE [raised |-> FALSE, exc |-> Absent, isdict |-> TRUE,
            obj |-> best_effort(response_text)]

(***************************************************************************)
(* llm_client.py: call_model                                               *)
(***************************************************************************)
\* str(e) of the exceptions the provider call raises
ProviderErrors == {"429 Too Many Requests", "Connection error"}
RATE_LIMIT_REACHED == "Rate limit reached for model"

\* "429" in error_str or "Rate limit" in error_str
IsRateLimit(error_str) ==
  error_str \in {"429 Too Many Requests", RATE_LIMIT_REACHED}

\* no call_model invocation in progress
\* (attempt is the loop variable, wait the last sleep; provider_calls counts
\* the calls of chat.completions.create and last_error is error_str)
NoCall ==
  [status |-> "idle", model_key |-> NoModel, attempt |-> 0, wait |-> 0,
   success |-> FALSE, error |-> Absent, response |-> Absent,
   max_retries |-> MAX_RETRIES, provider_calls |-> 0, last_error |-> Absent]

\* call_model(model_key, prompt) has been entered
EnterCall(model_key) == [NoCall EXCEPT !.status = "running", !.model_key = model_key]

\* call_model(model_key, prompt, max_retries) has been entered
EnterCallWith(model_key, max_retries) ==
  [EnterCall(model_key) EXCEPT !.max_retries = max_retries]

\* the dict returned for an identifier outside the configuration table
NotAvailableResult(c) ==
  [c EXCEPT !.status = "returned", !.success = FALSE,
            !.error = "Model " \o KeyStr(c.model_key) \o " is not available",
            !.response = None]

\* the dict returned when the provider call returns content
SuccessResult(c, content) ==
  [c EXCEPT !.status = "returned", !.success = TRUE, !.response = content,
            !.provider_calls = c.provider_calls + 1]

\* the dict returned when the last attempt raised error_str
FinalFailureResult(c, error_str) ==
  [c EXCEPT !.status = "returned", !.success = FALSE, !.response = None,
            !.provider_calls = c.provider_calls + 1,
            !.last_error = error_str,
            !.error = IF IsRateLimit(error_str)
                        THEN "Rate limit exceeded after "
                             \o ToString(c.max_retries)
                             \o " retries: " \o error_str
                        ELSE error_str]

\* the same short delay after every error
RetryWaitFixed(attempt, error_str) == 2

\* the sleep before the next attempt
RetryWait(attempt, error_str) ==
  IF IsRateLimit(error_str) THEN 10 + (attempt * 5) ELSE 2

\* the loop variable is not advanced
NextAttemptRepeated(c, error_str) ==
  [c EXCEPT !.wait = RetryWait(c.attempt, error_str),
            !.provider_calls = c.provider_calls + 1,
            !.last_error = error_str]

\* the state of call_model after the sleep that follows a failed attempt
NextAttempt(c, error_str) ==
  [c EXCEPT !.attempt = c.attempt + 1,
            !.wait = RetryWait(c.attempt, error_str),
            !.provider_calls = c.provider_calls + 1,
            !.last_error = error_str]

(***************************************************************************)
(* layers/answering_layer.py                                               *)
(***************************************************************************)
AnswerRecord(model, success, error, answer, reasoning, raw_response) ==
  [model |-> model, success |-> success, error |-> error, answer |-> answer,
   reasoning |-> reasoning, raw_response |-> raw_response]

\* _get_model_answer without the test of response['success']
_get_model_answer_unchecked(model, response) ==
  LET parsed_response == parse_json_response(response.response) IN
    IF parsed_response.raised
      THEN AnswerRecord(model, FALSE, parsed_response.exc, None, None, Absent)
    ELSE IF ~parsed_response.isdict
      THEN AnswerRecord(model, FALSE, TYPE_ERROR_INT, None, None, Absent)
    ELSE IF parsed_response.obj.error # Absent
      THEN AnswerRecord(model, FALSE, parsed_response.obj.error, None, None,
                        Get(parsed_response.obj, "raw_response", ""))
    ELSE AnswerRecord(model, TRUE, Absent,
                      Get(parsed_response.obj, "answer", ""),
                      Get(parsed_response.obj, "reasoning", ""),
                      response.response)

\* _get_model_answer applied to the dict call_model returned
\* (the provider's usage metadata is not modelled)
_get_model_answer(model, response) ==
  IF ~response.success
    THEN AnswerRecord(model, FALSE, response.error, None, None, Absent)
  ELSE LET parsed_response == parse_json_response(response.response) IN
    IF parsed_response.raised
      THEN AnswerRecord(model, FALSE, parsed_response.exc, None, None, Absent)
    ELSE IF ~parsed_response.isdict
      \* 'error' in 42 raises TypeError, caught by except Exception
      THEN AnswerRecord(model, FALSE, TYPE_ERROR_INT, None, None, Absent)
    ELSE IF parsed_response.obj.error # Absent
      THEN AnswerRecord(model, FALSE, parsed_response.obj.error, None, None,
                        Get(parsed_response.obj, "raw_response", ""))
    ELSE AnswerRecord(model, TRUE, Absent,
                      Get(parsed_response.obj, "answer", ""),
                      Get(parsed_response.obj, "reasoning", ""),
                      response.response)

(***************************************************************************)
(* layers/verification_layer.py                                            *)
(***************************************************************************)
\* provider, model = model_key.split('/'); return model -- and the whole
\* key when the unpacking raises.  The name is held as a segment list so
\* that it compares with other names as the strings do.
_get_model_short_name(model_key) ==
  IF Len(model_key) = 2 THEN <<model_key[2]>> ELSE model_key

ANSWERING_FAILED_PREFIX == "answering layer failed: "
CANNOT_VERIFY_PREFIX == "answering failed, cannot verify: "

VerificationRecord(verifier, target, success, verdict, reason, error, raw) ==
  [verification_model |-> verifier, target_model |-> target,
   success |-> success, verdict |-> verdict, error_reason |-> reason,
   error |-> error, raw_response |-> raw]

\* the record verify_answers appends for an answer with success = False
SyntheticVerification(answer, verification_model) ==
  VerificationRecord(verification_model, answer.model, TRUE, "Incorrect",
                     ANSWERING_FAILED_PREFIX \o answer.error, Absent,
                     CANNOT_VERIFY_PREFIX \o answer.error)

\* self.prompt_template.format(question=..., model_name=..., answer=...)
\* with the reasoning among the arguments
VerificationPromptWithReasoning(q, answer) ==
  [question |-> q, model_name |-> answer.model,
   answer |-> answer.answer \o " because " \o answer.reasoning]

\* self.prompt_template.format(question=question, model_name=answer['model'],
\* answer=answer['answer']): the prompt is the template filled with these
\* three arguments, held as the arguments
VerificationPrompt(q, answer) ==
  [question |-> q, model_name |-> answer.model, answer |-> answer.answer]

\* parsed_response.get('target_model', answer['model'])
GetTargetModel(d, default) ==
  IF d.target_model = NoModel THEN default ELSE d.target_model

\* _verify_single_answer applied to the dict call_model returned
_verify_single_answer(answer, verification_model, response) ==
  IF ~response.success
    THEN VerificationRecord(verification_model, answer.model, FALSE, "Error",
                            response.error, response.error, Absent)
  ELSE LET parsed_response == parse_json_response(response.response) IN
    IF parsed_response.raised
      THEN VerificationRecord(verification_model, answer.model, FALSE, "Error",
                              parsed_response.exc, parsed_response.exc, Absent)
    ELSE IF ~parsed_response.isdict
      THEN VerificationRecord(verification_model, answer.model, FALSE, "Error",
                              TYPE_ERROR_INT, TYPE_ERROR_INT, Absent)
    ELSE IF parsed_response.obj.error # Absent
      THEN VerificationRecord(verification_model, answer.model, FALSE, "Error",
                              Get(parsed_response.obj, "raw_response", ""),
                              parsed_response.obj.error, Absent)
    ELSE VerificationRecord(verification_model,
                            GetTargetModel(parsed_response.obj, answer.model),
                            TRUE,
                            Get(parsed_response.obj, "verdict", "Unknown"),
                            Get(parsed_response.obj, "error_reason", ""),
                            Absent, response.response)

(***************************************************************************)
(* Inputs                                                                  *)
(***************************************************************************)
\* the sequences of at most n elements of set
SeqsUpTo(set, n) == UNION { [1..len -> set] : len \in 0..n }

\* the model lists of a run: lists without repetition of at most n identifiers
ModelLists(n) ==
  UNION { { s \in [1..k -> ModelIds] :
              \A a, b \in 1..k : a # b => s[a] # s[b] } : k \in 0..n }

\* what message.content of a provider response can be, by the stage asking
AnswerContents == {T_ANSWER, T_MULTILINE, T_PLAIN, T_ERROR, None}
VerifyContents ==
  {T_CORRECT, T_INCORRECT, T_RETARGET, T_PARTLY, T_PLAIN, None}
\* str(e) of what the provider call can raise, by the caller: a direct call
\* of call_model also meets the other wording of a rate-limit error
Errors ==
  IF pc = "call_wait" THEN ProviderErrors \cup {RATE_LIMIT_REACHED}
  ELSE ProviderErrors

CorrectionContents == {T_REVISED, T_PLAIN, T_ERROR, None}
DecisionContents == {T_DECISION, T_PLAIN, T_ERROR, T_NUMBER, None}
Contents ==
  IF pc = "answer_wait" THEN AnswerContents
  ELSE IF pc = "verify_wait" THEN VerifyContents
  ELSE IF pc = "correct_wait" THEN CorrectionContents
  ELSE IF pc = "decide_wait" THEN DecisionContents
  ELSE {T_NUMBER, None}

\* test_system.py, test_simple_question
TEST_QUESTION == "If it rains, X does not go to the park. X went to the park. Did it rain?"

\* main.py: another question, passed with --question
OTHER_QUESTION == "All cats are animals. Tom is a cat. Is Tom an animal?"

\* the questions process_question is called with
Questions == {TEST_QUESTION, OTHER_QUESTION}

\* Config.DEFAULT_CORRECTION_MODEL
DEFAULT_CORRECTION_MODEL == <<"groq", "llama-3-70b-8192">>

\* a float that is the quotient of two integers, held as the two integers
Rat(num, den) == [num |-> num, den |-> den]

\* make_final_decision has not returned and has not computed its metrics;
\* computed says whether the dict has the keys 'answer_confidence' and
\* 'verification_consensus', and the other missing keys are Absent
NoDecision ==
  [computed |-> FALSE, answer_confidence |-> Rat(0, 1),
   verification_consensus |->
     [consensus_rate |-> Rat(0, 1), agreement_level |-> Absent,
      has_distribution |-> FALSE, verdict_distribution |-> << >>],
   returned |-> FALSE, success |-> FALSE, error |-> Absent,
   decision_model |-> NoModel, final_answer |-> Absent, reasoning |-> Absent,
   evidence_analysis |-> Absent, raw_response |-> Absent]

\* a list argument of process_question: None, or the list that was passed
NoneArgument == [is_none |-> TRUE, list |-> << >>]
ListArgument(list) == [is_none |-> FALSE, list |-> list]

\* process_question called with answering_models = None and
\* verification_models = None
NoArguments ==
  [answering_models |-> NoneArgument, verification_models |-> NoneArgument]

\* parse_json_response has not been called on its own
NoParser == [texts |-> << >>, results |-> << >>]

\* process_question has not returned: no result, nothing written to the
\* results directory
NoResult ==
  [status |-> "running", success |-> FALSE, error |-> Absent, saved |-> 0]

\* the later stages have not started
LaterStagesIdle ==
  /\ verified_for = << >>
  /\ verify_calls = << >>
  /\ tasks = << >>
  /\ ti = 1
  /\ correction_results = << >>
  /\ correction_calls = << >>
  /\ decision = NoDecision
  /\ orchestrator = "SystemCoordinator"
  /\ decision_model = NoModel
  /\ result = NoResult
  /\ parser = NoParser
  /\ arguments = NoArguments
  /\ slept = FALSE

Init ==
  /\ entry \in {"pipeline", "test_connection"}
  /\ question = TEST_QUESTION
  /\ correction_model = NoModel
  /\ LaterStagesIdle
  /\ answers = << >>
  /\ verification_results = << >>
  /\ provider_log = {}
  /\ connected = FALSE
  /\ i = 1
  /\ j = 1
  /\ IF entry = "pipeline"
       THEN /\ models \in ModelLists(MaxModels)
            /\ verification_models \in ModelLists(MaxVerifiers)
            /\ pc = "answering"
            /\ call = NoCall
            /\ client_calls = {}
       ELSE /\ models = << >>
            /\ verification_models = << >>
            /\ pc = "test_wait"
            /\ \E model_key \in ModelIds : call = EnterCall(model_key)
            /\ client_calls = {<<"test_connection", 0, 0>>}

(***************************************************************************)
(* LLMClient.call_model, one step per return or provider attempt           *)
(***************************************************************************)
\* if not self.config.is_model_available(model_key): return {...}
CallModelUnavailable ==
  /\ call.status = "running"
  /\ ~is_model_available(call.model_key)
  /\ call' = NotAvailableResult(call)
  /\ UNCHANGED <<entry, models, verification_models, pc, i, j, answers,
                 verification_results, provider_log, client_calls, connected>>
  /\ UNCHANGED <<run_inputs, verify_log, correction_state, decision, run_state, slept>>

\* self.client.chat.completions.create(...) returns
ProviderReturns ==
  /\ call.status = "running"
  /\ is_model_available(call.model_key)
  /\ \E content \in Contents : call' = SuccessResult(call, content)
  /\ provider_log' = provider_log \cup {call.model_key}
  /\ UNCHANGED <<entry, models, verification_models, pc, i, j, answers,
                 verification_results, client_calls, connected>>
  /\ UNCHANGED <<run_inputs, verify_log, correction_state, decision, run_state, slept>>

\* the provider call raises before the last attempt: sleep, next attempt
ProviderRaisesRetry ==
  /\ call.status = "running"
  /\ is_model_available(call.model_key)
  /\ call.attempt < call.max_retries
  /\ \E error_str \in Errors : call' = NextAttempt(call, error_str)
  /\ provider_log' = provider_log \cup {call.model_key}
  /\ UNCHANGED <<entry, models, verification_models, pc, i, j, answers,
                 verification_results, client_calls, connected>>
  /\ UNCHANGED <<run_inputs, verify_log, correction_state, decision, run_state, slept>>

\* the provider call raises at attempt == max_retries: failure dict
ProviderRaisesFinal ==
  /\ call.status = "running"
  /\ is_model_available(call.model_key)
  /\ call.attempt = call.max_retries
  /\ \E error_str \in Errors : call' = FinalFailureResult(call, error_str)
  /\ provider_log' = provider_log \cup {call.model_key}
  /\ UNCHANGED <<entry, models, verification_models, pc, i, j, answers,
                 verification_results, client_calls, connected>>
  /\ UNCHANGED <<run_inputs, verify_log, correction_state, decision, run_state, slept>>

\* LLMClient.test_connection: return response['success']
TestConnectionReturn ==
  /\ pc = "test_wait"
  /\ call.status = "returned"
  /\ connected' = call.success
  /\ pc' = "done"
  /\ call' = NoCall
  /\ UNCHANGED <<entry, models, verification_models, i, j, answers,
                 verification_results, provider_log, client_calls>>
  /\ UNCHANGED <<run_inputs, verify_log, correction_state, decision, run_state, slept>>

(***************************************************************************)
(* AnsweringLayer.process_question                                         *)
(***************************************************************************)
\* for model in models: the identifier is not available, nothing is appended
AnswerSkipUnavailable ==
  /\ pc = "answering"
  /\ i <= Len(models)
  /\ ~is_model_available(models[i])
  /\ i' = i + 1
  /\ UNCHANGED <<entry, models, verification_models, pc, j, answers,
                 verification_results, call, provider_log, client_calls,
                 connected>>
  /\ UNCHANGED <<run_inputs, verify_log, correction_state, decision, run_state, slept>>

\* await self._get_model_answer(model, prompt): call_model is entered
AnswerInvoke ==
  /\ pc = "answering"
  /\ i <= Len(models)
  /\ is_model_available(models[i])
  /\ call' = EnterCall(models[i])
  /\ client_calls' = client_calls \cup {<<"answering", i, 0>>}
  /\ pc' = "answer_wait"
  /\ UNCHANGED <<entry, models, verification_models, i, j, answers,
                 verification_results, provider_log, connected>>
  /\ UNCHANGED <<run_inputs, verify_log, correction_state, decision, run_state>>
  /\ slept' = FALSE

\* the record is appended and the loop goes on without asyncio.sleep(2)
AnswerReturnWithoutPause ==
  /\ pc = "answer_wait"
  /\ call.status = "returned"
  /\ answers' = Append(answers, _get_model_answer(models[i], call))
  /\ i' = i + 1
  /\ call' = NoCall
  /\ pc' = "answering"
  /\ UNCHANGED <<entry, models, verification_models, j, verification_results,
                 provider_log, client_calls, connected>>
  /\ UNCHANGED <<run_inputs, verify_log, correction_state, decision, run_state>>
  /\ UNCHANGED slept

\* call_model returned: _get_model_answer builds the record, it is
\* appended, and the layer sleeps (await asyncio.sleep(2))
AnswerReturn ==
  /\ pc = "answer_wait"
  /\ call.status = "returned"
  /\ answers' = Append(answers, _get_model_answer(models[i], call))
  /\ i' = i + 1
  /\ call' = NoCall
  /\ pc' = "answering"
  /\ UNCHANGED <<entry, models, verification_models, j, verification_results,
                 provider_log, client_calls, connected>>
  /\ UNCHANGED <<run_inputs, verify_log, correction_state, decision, run_state>>
  /\ slept' = TRUE

\* successful_answers = [r for r in answering_results if r['success']]
successful_answers == SelectSeq(answers, LAMBDA r : r.success)

\* the parameter original_answers of the three later stages:
\* SystemCoordinator passes answering_results, LLMLogicSystem passes
\* successful_answers
passed_answers ==
  IF orchestrator = "LLMLogicSystem" THEN successful_answers ELSE answers

\* if not successful_answers: results['success'] = False; return results
ShortCircuit ==
  orchestrator = "LLMLogicSystem" /\ successful_answers = << >>

\* the answers are returned before the loop over the models has ended
AnswerDoneEarly ==
  /\ pc = "answering"
  /\ ~ShortCircuit
  /\ pc' = "verifying"
  /\ i' = 1
  /\ j' = 1
  /\ UNCHANGED <<entry, models, verification_models, answers,
                 verification_results, call, provider_log, client_calls,
                 connected>>
  /\ UNCHANGED <<run_inputs, verify_log, correction_state, decision, run_state, slept>>

\* return answers; process_question passes them (LLMLogicSystem: the
\* successful ones, if there are any) to verify_answers
AnswerDone ==
  /\ pc = "answering"
  /\ i > Len(models)
  /\ ~ShortCircuit
  /\ pc' = "verifying"
  /\ i' = 1
  /\ j' = 1
  /\ UNCHANGED <<entry, models, verification_models, answers,
                 verification_results, call, provider_log, client_calls,
                 connected>>
  /\ UNCHANGED <<run_inputs, verify_log, correction_state, decision, run_state, slept>>

(***************************************************************************)
(* VerificationLayer.verify_answers                                        *)
(***************************************************************************)
InVerifyLoop ==
  /\ pc = "verifying"
  /\ i <= Len(passed_answers)
  /\ j <= Len(verification_models)

\* the verifier is compared with a model that is never its own
SameShortNameNever == FALSE

SameShortName ==
  _get_model_short_name(verification_models[j])
    = _get_model_short_name(passed_answers[i].model)

\* verification_model_short == target_model_short: the pair is skipped
VerifySkipSelf ==
  /\ InVerifyLoop
  /\ SameShortName
  /\ j' = j + 1
  /\ UNCHANGED <<entry, models, verification_models, pc, i, answers,
                 verification_results, call, provider_log, client_calls,
                 connected>>
  /\ UNCHANGED <<run_inputs, verify_log, correction_state, decision, run_state, slept>>

\* the verifier is not available: the pair is skipped
VerifySkipUnavailable ==
  /\ InVerifyLoop
  /\ ~SameShortName
  /\ ~is_model_available(verification_models[j])
  /\ j' = j + 1
  /\ UNCHANGED <<entry, models, verification_models, pc, i, answers,
                 verification_results, call, provider_log, client_calls,
                 connected>>
  /\ UNCHANGED <<run_inputs, verify_log, correction_state, decision, run_state, slept>>

\* if not answer['success']: the Incorrect record is appended without a call
VerifySynthetic ==
  /\ InVerifyLoop
  /\ ~SameShortName
  /\ is_model_available(verification_models[j])
  /\ ~passed_answers[i].success
  /\ verification_results' =
       Append(verification_results,
              SyntheticVerification(passed_answers[i], verification_models[j]))
  /\ j' = j + 1
  /\ UNCHANGED <<entry, models, verification_models, pc, i, answers, call,
                 provider_log, client_calls, connected>>
  /\ verified_for' = Append(verified_for, i)
  /\ UNCHANGED <<run_inputs, verify_calls, correction_state, decision, run_state>>
  /\ slept' = TRUE

\* await self._verify_single_answer(...): call_model is entered
VerifyInvoke ==
  /\ InVerifyLoop
  /\ ~SameShortName
  /\ is_model_available(verification_models[j])
  /\ passed_answers[i].success
  /\ call' = EnterCall(verification_models[j])
  /\ client_calls' = client_calls \cup {<<"verification", i, j>>}
  /\ pc' = "verify_wait"
  /\ UNCHANGED <<entry, models, verification_models, i, j, answers,
                 verification_results, provider_log, connected>>
  /\ verify_calls' =
       Append(verify_calls,
              [answer |-> i, model_key |-> verification_models[j],
               prompt |-> VerificationPrompt(question, passed_answers[i])])
  /\ UNCHANGED <<run_inputs, verified_for, correction_state, decision, run_state>>
  /\ slept' = FALSE

\* the record is put in front of the records emitted so far
VerifyReturnPrepended ==
  /\ pc = "verify_wait"
  /\ call.status = "returned"
  /\ verification_results' =
       <<_verify_single_answer(passed_answers[i], verification_models[j], call)>>
         \o verification_results
  /\ j' = j + 1
  /\ call' = NoCall
  /\ pc' = "verifying"
  /\ UNCHANGED <<entry, models, verification_models, i, answers, provider_log,
                 client_calls, connected>>
  /\ verified_for' = <<i>> \o verified_for
  /\ UNCHANGED <<run_inputs, verify_calls, correction_state, decision, run_state>>
  /\ slept' = TRUE

\* call_model returned: _verify_single_answer builds the record
VerifyReturn ==
  /\ pc = "verify_wait"
  /\ call.status = "returned"
  /\ verification_results' =
       Append(verification_results,
              _verify_single_answer(passed_answers[i], verification_models[j], call))
  /\ j' = j + 1
  /\ call' = NoCall
  /\ pc' = "verifying"
  /\ UNCHANGED <<entry, models, verification_models, i, answers, provider_log,
                 client_calls, connected>>
  /\ verified_for' = Append(verified_for, i)
  /\ UNCHANGED <<run_inputs, verify_calls, correction_state, decision, run_state>>
  /\ slept' = TRUE

\* the inner loop over verification_models is exhausted: next answer
VerifyNextAnswer ==
  /\ pc = "verifying"
  /\ i <= Len(passed_answers)
  /\ j > Len(verification_models)
  /\ i' = i + 1
  /\ j' = 1
  /\ UNCHANGED <<entry, models, verification_models, pc, answers,
                 verification_results, call, provider_log, client_calls,
                 connected>>
  /\ UNCHANGED <<run_inputs, verify_log, correction_state, decision, run_state, slept>>

\* return verification_results
VerifyDone ==
  /\ pc = "verifying"
  /\ i > Len(passed_answers)
  /\ pc' = "done"
  /\ UNCHANGED <<entry, models, verification_models, i, j, answers,
                 verification_results, call, provider_log, client_calls,
                 connected>>
  /\ UNCHANGED <<run_inputs, verify_log, correction_state, decision, run_state, slept>>

Next ==
  \/ CallModelUnavailable
  \/ ProviderReturns
  \/ ProviderRaisesRetry
  \/ ProviderRaisesFinal
  \/ TestConnectionReturn
  \/ AnswerSkipUnavailable
  \/ AnswerInvoke
  \/ AnswerReturn
  \/ AnswerDone
  \/ VerifySkipSelf
  \/ VerifySkipUnavailable
  \/ VerifySynthetic
  \/ VerifyInvoke
  \/ VerifyReturn
  \/ VerifyNextAnswer
  \/ VerifyDone

Spec == Init /\ [][Next]_vars

TypeOK ==
  /\ pc \in {"answering", "answer_wait", "verifying", "verify_wait",
             "test_wait", "done", "correcting", "correct_wait", "corrected",
             "deciding", "decided", "call_wait", "decide_wait", "finished"}
  /\ call.status \in {"idle", "running", "returned", "blocked"}

(***************************************************************************)
(* layers/correction_layer.py                                              *)
(***************************************************************************)
\* a dict of the list correct_answers returns; has_success says whether the
\* dict has the key 'success', and the other missing keys are Absent
CorrectionRecord ==
  [model |-> NoModel, needs_correction |-> FALSE, has_success |-> FALSE,
   success |-> FALSE, error |-> Absent, original_answer |-> Absent,
   revised_answer |-> Absent, original_reasoning |-> Absent,
   revised_reasoning |-> Absent, original_error_acknowledgment |-> Absent,
   correction_applied |-> FALSE, verification_error_reason |-> Absent,
   raw_response |-> Absent]

\* the record for an answer without Incorrect verdict, its revised fields blank
PassThroughBlank(original_answer) ==
  [CorrectionRecord EXCEPT !.model = original_answer.model,
                           !.original_answer = original_answer.answer,
                           !.revised_answer = "",
                           !.original_reasoning = original_answer.reasoning,
                           !.revised_reasoning = ""]

\* correct_answers, else branch: the original answer is kept
PassThrough(original_answer) ==
  [CorrectionRecord EXCEPT !.model = original_answer.model,
                           !.original_answer = original_answer.answer,
                           !.revised_answer = original_answer.answer,
                           !.original_reasoning = original_answer.reasoning,
                           !.revised_reasoning = original_answer.reasoning]

\* a failure dict that claims the correction was applied
CorrectionFailureApplied(original_answer, error, raw_response) ==
  [CorrectionRecord EXCEPT !.model = original_answer.model,
                           !.needs_correction = TRUE,
                           !.has_success = TRUE,
                           !.correction_applied = TRUE,
                           !.error = error,
                           !.raw_response = raw_response]

\* the three failure dicts of _correct_single_answer
CorrectionFailure(original_answer, error, raw_response) ==
  [CorrectionRecord EXCEPT !.model = original_answer.model,
                           !.needs_correction = TRUE,
                           !.has_success = TRUE,
                           !.error = error,
                           !.raw_response = raw_response]

\* self.prompt_template.format(question=..., original_reasoning=...,
\* original_answer=..., verdict=..., error_reason=...), held as the arguments
CorrectionPrompt(q, original_answer, verification_result) ==
  [question |-> q, original_reasoning |-> original_answer.reasoning,
   original_answer |-> original_answer.answer,
   verdict |-> verification_result.verdict,
   error_reason |-> verification_result.error_reason]

\* _correct_single_answer applied to the dict call_model returned
_correct_single_answer(original_answer, verification_result, response) ==
  IF ~response.success
    THEN CorrectionFailure(original_answer, response.error, Absent)
  ELSE LET parsed_response == parse_json_response(response.response) IN
    IF parsed_response.raised
      THEN CorrectionFailure(original_answer, parsed_response.exc, Absent)
    ELSE IF ~parsed_response.isdict
      THEN CorrectionFailure(original_answer, TYPE_ERROR_INT, Absent)
    ELSE IF parsed_response.obj.error # Absent
      THEN CorrectionFailure(original_answer, parsed_response.obj.error,
                             Get(parsed_response.obj, "raw_response", ""))
    ELSE [CorrectionRecord EXCEPT
            !.model = original_answer.model,
            !.needs_correction = TRUE,
            !.has_success = TRUE,
            !.success = TRUE,
            !.original_answer = original_answer.answer,
            !.revised_answer = Get(parsed_response.obj, "revised_answer", ""),
            !.original_reasoning = original_answer.reasoning,
            !.revised_reasoning =
               Get(parsed_response.obj, "revised_reasoning", ""),
            !.original_error_acknowledgment =
               Get(parsed_response.obj, "original_error_acknowledgment", ""),
            !.correction_applied = TRUE,
            !.verification_error_reason = verification_result.error_reason,
            !.raw_response = response.response]

\* verification_map.get(model_name, []): the records whose target_model is
\* model_name, in the order of the list
model_verifications(records, model_name) ==
  SelectSeq(records, LAMBDA v : v.target_model = model_name)

\* every record of the model counts as a reason to correct
incorrect_verifications_all(records, model_name) ==
  model_verifications(records, model_name)

\* [v for v in model_verifications if v.get('verdict') == 'Incorrect']
incorrect_verifications(records, model_name) ==
  SelectSeq(model_verifications(records, model_name),
            LAMBDA v : v.verdict = "Incorrect")

\* the last Incorrect record instead of the first
verification_to_use_last(records, model_name) ==
  LET incorrect == incorrect_verifications(records, model_name) IN
    incorrect[Len(incorrect)]

\* verification_to_use = incorrect_verifications[0]
verification_to_use(records, model_name) ==
  incorrect_verifications(records, model_name)[1]

\* the loop handles every answer, failed ones too
is_handled_always(original_answer) == TRUE

\* if not original_answer['success']: continue
is_handled(original_answer) == original_answer.success

\* the answers of the loop that reach the if: those not skipped by continue
handled_answers(original_answers) ==
  SelectSeq(original_answers, LAMBDA a : is_handled(a))

\* the tasks list when the for loop over original_answers ends
correction_tasks(original_answers, records) ==
  LET need == SelectSeq(handled_answers(original_answers),
                        LAMBDA a : incorrect_verifications(records, a.model) # << >>)
  IN [n \in 1..Len(need) |->
        [original_answer |-> need[n],
         verification_result |-> verification_to_use(records, need[n].model)]]

\* correction_results when the for loop over original_answers ends
pass_through_results(original_answers, records) ==
  LET keep == SelectSeq(handled_answers(original_answers),
                        LAMBDA a : incorrect_verifications(records, a.model) = << >>)
  IN [n \in 1..Len(keep) |-> PassThrough(keep[n])]

(***************************************************************************)
(* CorrectionLayer.correct_answers                                         *)
(***************************************************************************)
\* verification_map[target_model] raises TypeError for a record whose
\* target_model is a list
unhashable_target(records) ==
  \E n \in 1..Len(records) : records[n].target_model = ListValue

\* correct_answers is entered with the coordinator's answers and records:
\* the default model, the index of the records, and the loop over the
\* answers, which appends the pass-through records and collects the tasks
CorrectStart ==
  /\ entry = "pipeline"
  /\ pc = "done"
  /\ ~unhashable_target(verification_results)
  /\ correction_model' =
       IF correction_model = NoModel THEN DEFAULT_CORRECTION_MODEL
                                     ELSE correction_model
  /\ tasks' = correction_tasks(passed_answers, verification_results)
  /\ correction_results' =
       pass_through_results(passed_answers, verification_results)
  /\ ti' = 1
  /\ pc' = "correcting"
  /\ UNCHANGED <<entry, models, verification_models, i, j, answers,
                 verification_results, call, provider_log, client_calls,
                 connected>>
  /\ UNCHANGED <<question, verify_log, correction_calls, decision, run_state, slept>>

\* correction = await task: _correct_single_answer builds the prompt and
\* enters call_model
CorrectInvoke ==
  /\ pc = "correcting"
  /\ ti <= Len(tasks)
  /\ call' = EnterCall(correction_model)
  /\ client_calls' = client_calls \cup {<<"correction", ti, 0>>}
  /\ correction_calls' =
       Append(correction_calls,
              [task |-> ti, model_key |-> correction_model,
               prompt |-> CorrectionPrompt(question, tasks[ti].original_answer,
                                           tasks[ti].verification_result)])
  /\ pc' = "correct_wait"
  /\ UNCHANGED <<entry, models, verification_models, i, j, answers,
                 verification_results, provider_log, connected>>
  /\ UNCHANGED <<run_inputs, verify_log, tasks, ti, correction_results,
                 decision, run_state>>
  /\ slept' = FALSE

\* the revised answer is also written into the answer record it corrects
CorrectReturnInPlace ==
  /\ pc = "correct_wait"
  /\ call.status = "returned"
  /\ correction_results' =
       Append(correction_results,
              _correct_single_answer(tasks[ti].original_answer,
                                     tasks[ti].verification_result, call))
  /\ answers' =
       [n \in 1..Len(answers) |->
          IF answers[n].model = tasks[ti].original_answer.model /\ call.success
            THEN [answers[n] EXCEPT !.answer = "Yes"]
            ELSE answers[n]]
  /\ ti' = ti + 1
  /\ call' = NoCall
  /\ pc' = "correcting"
  /\ UNCHANGED <<entry, models, verification_models, i, j,
                 verification_results, provider_log, client_calls, connected>>
  /\ UNCHANGED <<run_inputs, verify_log, tasks, correction_calls, decision, run_state>>
  /\ slept' = TRUE

\* call_model returned: the task's record is appended
CorrectReturn ==
  /\ pc = "correct_wait"
  /\ call.status = "returned"
  /\ correction_results' =
       Append(correction_results,
              _correct_single_answer(tasks[ti].original_answer,
                                     tasks[ti].verification_result, call))
  /\ ti' = ti + 1
  /\ call' = NoCall
  /\ pc' = "correcting"
  /\ UNCHANGED <<entry, models, verification_models, i, j, answers,
                 verification_results, provider_log, client_calls, connected>>
  /\ UNCHANGED <<run_inputs, verify_log, tasks, correction_calls, decision, run_state>>
  /\ slept' = TRUE

\* the loop over tasks is exhausted: return correction_results
CorrectDone ==
  /\ pc = "correcting"
  /\ ti > Len(tasks)
  /\ pc' = "corrected"
  /\ UNCHANGED <<entry, models, verification_models, i, j, answers,
                 verification_results, call, provider_log, client_calls,
                 connected>>
  /\ UNCHANGED <<run_inputs, verify_log, correction_state, decision, run_state, slept>>

\* Config.DEFAULT_ANSWERING_MODELS, DEFAULT_VERIFICATION_MODELS and the
\* lists of the limited mode
DEFAULT_ANSWERING_MODELS ==
  << <<"groq", "llama-3-70b-8192">>, <<"groq", "llama-3.3-70b">> >>
DEFAULT_VERIFICATION_MODELS ==
  << <<"groq", "llama-3-70b-8192">>, <<"groq", "llama-3.3-70b">> >>
LIMITED_MODE_ANSWERING_MODELS == << <<"groq", "llama-3-70b-8192">> >>
LIMITED_MODE_VERIFICATION_MODELS == << <<"groq", "llama-3-70b-8192">> >>

\* SystemCoordinator.process_question with the configuration's model lists,
\* the default ones or those of the limited mode, and no correction model
InitRun ==
  /\ entry = "pipeline"
  /\ question = TEST_QUESTION
  /\ correction_model = NoModel
  /\ LaterStagesIdle
  /\ \/ /\ models = DEFAULT_ANSWERING_MODELS
        /\ verification_models = DEFAULT_VERIFICATION_MODELS
     \/ /\ models = LIMITED_MODE_ANSWERING_MODELS
        /\ verification_models = LIMITED_MODE_VERIFICATION_MODELS
  /\ answers = << >>
  /\ verification_results = << >>
  /\ provider_log = {}
  /\ connected = FALSE
  /\ pc = "answering"
  /\ i = 1
  /\ j = 1
  /\ call = NoCall
  /\ client_calls = {}

\* what message.content can be in these runs: for a verifier, also an
\* Incorrect verdict that names another target
RunContents ==
  IF pc = "verify_wait" THEN VerifyContents \cup {T_WRONG_TARGET} ELSE Contents

\* self.client.chat.completions.create(...) returns, in these runs
ProviderReturnsRun ==
  /\ call.status = "running"
  /\ is_model_available(call.model_key)
  /\ \E content \in RunContents : call' = SuccessResult(call, content)
  /\ provider_log' = provider_log \cup {call.model_key}
  /\ UNCHANGED <<entry, models, verification_models, pc, i, j, answers,
                 verification_results, client_calls, connected>>
  /\ UNCHANGED <<run_inputs, verify_log, correction_state, decision, run_state, slept>>

\* the first three stages of process_question on these lists
NextRun ==
  \/ ProviderReturnsRun
  \/ ProviderRaisesRetry
  \/ ProviderRaisesFinal
  \/ AnswerInvoke
  \/ AnswerReturn
  \/ AnswerDone
  \/ VerifySkipSelf
  \/ VerifySynthetic
  \/ VerifyInvoke
  \/ VerifyReturn
  \/ VerifyNextAnswer
  \/ VerifyDone
  \/ CorrectStart
  \/ CorrectInvoke
  \/ CorrectReturn
  \/ CorrectDone

SpecRun == InitRun /\ [][NextRun]_vars

(***************************************************************************)
(* correct_answers on given answers and verification records               *)
(***************************************************************************)
MaxAnswers == 2
MaxRecords == 2

\* the identifiers of ModelIds the configuration table holds
AvailableIds == { model_key \in ModelIds : is_model_available(model_key) }

\* an answer record of model: a successful one and a failed one
AnswerInputs(model) ==
  { _get_model_answer(model, SuccessResult(EnterCall(model), content)) :
      content \in {T_ANSWER, T_ERROR} }

\* the answer lists process_question can return for a list of at most n
\* available models without repetition
AnswerLists(n) ==
  { a \in SeqsUpTo(UNION { AnswerInputs(m) : m \in AvailableIds }, n) :
      \A x, y \in 1..Len(a) : x # y => a[x].model # a[y].model }

\* the records a verifier's response yields for an answer of model target
VerificationInputs(target) ==
  { _verify_single_answer(CHOOSE a \in AnswerInputs(target) : a.success,
                          verifier,
                          SuccessResult(EnterCall(verifier), content)) :
      verifier \in AvailableIds \ {target},
      content \in {T_CORRECT, T_INCORRECT, T_INCORRECT_2} }

\* correct_answers is about to be entered: answers of different available
\* models, any verification records targeting such models, a correction
\* model or none
InitCorrection ==
  /\ entry = "pipeline"
  /\ question \in Questions
  /\ correction_model \in {NoModel, <<"openai", "llama-3.3-70b">>}
  /\ LaterStagesIdle
  /\ models = << >>
  /\ verification_models = << >>
  /\ answers \in AnswerLists(MaxAnswers)
  /\ verification_results
       \in SeqsUpTo(UNION { VerificationInputs(m) : m \in AvailableIds },
                    MaxRecords)
  /\ provider_log = {}
  /\ connected = FALSE
  /\ pc = "done"
  /\ i = 1
  /\ j = 1
  /\ call = NoCall
  /\ client_calls = {}

NextCorrection ==
  \/ CallModelUnavailable
  \/ ProviderReturns
  \/ ProviderRaisesRetry
  \/ ProviderRaisesFinal
  \/ CorrectStart
  \/ CorrectInvoke
  \/ CorrectReturn
  \/ CorrectDone

SpecCorrection == InitCorrection /\ [][NextCorrection]_vars

(***************************************************************************)
(* layers/decision_layer.py: the metrics of make_final_decision            *)
(***************************************************************************)
\* ==, >= of floats that are quotients of small integers
RatEq(a, b) == a.num * b.den = b.num * a.den
RatGeq(a, b) == a.num * b.den >= b.num * a.den

\* the count of the records whose verdict is not Incorrect
correct_count_not_incorrect(records) ==
  Len(SelectSeq(records, LAMBDA v : v.verdict # "Incorrect"))

\* sum(1 for v in verification_results if v.get('verdict') == 'Correct')
correct_count(records) ==
  Len(SelectSeq(records, LAMBDA v : v.verdict = "Correct"))

\* _calculate_answer_confidence returning 0 for the empty list
_calculate_answer_confidence_zero(records) ==
  IF records = << >> THEN Rat(0, 1)
  ELSE Rat(correct_count(records), Len(records))

\* _calculate_answer_confidence: 0.5 for the empty list, else the quotient
_calculate_answer_confidence(records) ==
  IF records = << >> THEN Rat(1, 2)
  ELSE Rat(correct_count(records), Len(records))

\* the loop over verification_results: verdict_counts after the records
\* from position n on have been counted into counts
RECURSIVE verdict_counts(_, _, _)
verdict_counts(records, n, counts) ==
  IF n > Len(records) THEN counts
  ELSE LET verdict == IF records[n].verdict = Absent THEN "Unknown"
                                                      ELSE records[n].verdict
           seen == IF verdict \in DOMAIN counts THEN counts[verdict] ELSE 0
       IN verdict_counts(records, n + 1,
                         [v \in DOMAIN counts \cup {verdict} |->
                            IF v = verdict THEN seen + 1 ELSE counts[v]])

\* the smallest tally instead of the largest
min_agreement(counts) ==
  CHOOSE m \in { counts[v] : v \in DOMAIN counts } :
    \A v \in DOMAIN counts : counts[v] >= m

\* max(verdict_counts.values())
max_agreement(counts) ==
  CHOOSE m \in { counts[v] : v \in DOMAIN counts } :
    \A v \in DOMAIN counts : counts[v] <= m

\* the thresholds taken as exclusive
agreement_level_strict(consensus_rate) ==
  IF ~RatGeq(Rat(8, 10), consensus_rate) THEN "High Consensus"
  ELSE IF ~RatGeq(Rat(6, 10), consensus_rate) THEN "Moderate Consensus"
  ELSE "Low Consensus"

\* if consensus_rate >= 0.8 ... elif consensus_rate >= 0.6 ... else
agreement_level(consensus_rate) ==
  IF RatGeq(consensus_rate, Rat(8, 10)) THEN "High Consensus"
  ELSE IF RatGeq(consensus_rate, Rat(6, 10)) THEN "Moderate Consensus"
  ELSE "Low Consensus"

\* the largest tally divided by one more than the number of records
_calculate_consensus_diluted(records) ==
  IF records = << >>
    THEN [consensus_rate |-> Rat(0, 1), agreement_level |-> "No Data",
          has_distribution |-> FALSE, verdict_distribution |-> << >>]
  ELSE LET counts == verdict_counts(records, 1, << >>)
           consensus_rate == Rat(max_agreement(counts), Len(records) + 1)
       IN [consensus_rate |-> consensus_rate,
           agreement_level |-> agreement_level(consensus_rate),
           has_distribution |-> TRUE,
           verdict_distribution |-> counts]

\* _calculate_consensus
_calculate_consensus(records) ==
  IF records = << >>
    THEN [consensus_rate |-> Rat(0, 1), agreement_level |-> "No Data",
          has_distribution |-> FALSE, verdict_distribution |-> << >>]
  ELSE LET counts == verdict_counts(records, 1, << >>)
           consensus_rate == Rat(max_agreement(counts), Len(records))
       IN [consensus_rate |-> consensus_rate,
           agreement_level |-> agreement_level(consensus_rate),
           has_distribution |-> TRUE,
           verdict_distribution |-> counts]

MaxVerifications == 5

\* the verdicts of the records the metrics are computed from
Verdicts == {"Correct", "Incorrect", "Error", "Partially Correct"}

\* a verification record with the given verdict
MetricRecord(verdict) ==
  VerificationRecord(<<"groq", "llama-3.3-70b">>, <<"groq", "llama-3-70b-8192">>,
                     verdict # "Error", verdict, "", Absent, Absent)

\* make_final_decision is about to compute its metrics from any list of
\* verification records
InitMetrics ==
  /\ entry = "pipeline"
  /\ question = TEST_QUESTION
  /\ correction_model = DEFAULT_CORRECTION_MODEL
  /\ LaterStagesIdle
  /\ models = << >>
  /\ verification_models = << >>
  /\ answers = << >>
  /\ verification_results
       \in SeqsUpTo({ MetricRecord(verdict) : verdict \in Verdicts },
                    MaxVerifications)
  /\ provider_log = {}
  /\ connected = FALSE
  /\ pc = "deciding"
  /\ i = 1
  /\ j = 1
  /\ call = NoCall
  /\ client_calls = {}

\* 'answer_confidence': self._calculate_answer_confidence(...),
\* 'verification_consensus': self._calculate_consensus(...)
CalculateMetrics ==
  /\ pc = "deciding"
  /\ decision' =
       [NoDecision EXCEPT
          !.computed = TRUE,
          !.answer_confidence =
             _calculate_answer_confidence(verification_results),
          !.verification_consensus =
             _calculate_consensus(verification_results)]
  /\ pc' = "decided"
  /\ UNCHANGED <<entry, models, verification_models, i, j, answers,
                 verification_results, call, provider_log, client_calls,
                 connected>>
  /\ UNCHANGED <<run_inputs, verify_log, correction_state, run_state, slept>>

NextMetrics == CalculateMetrics

SpecMetrics == InitMetrics /\ [][NextMetrics]_vars

(***************************************************************************)
(* layers/decision_layer.py: make_final_decision                           *)
(***************************************************************************)
\* Config.DEFAULT_DECISION_MODEL
DEFAULT_DECISION_MODEL == <<"groq", "llama-3.3-70b">>

\* the three failure returns of make_final_decision
DecisionFailure(model, error, raw_response) ==
  [NoDecision EXCEPT !.returned = TRUE, !.success = FALSE, !.error = error,
                     !.decision_model = model, !.raw_response = raw_response]

\* the confidence is taken from the model's answer: 1 when it gives one
make_final_decision_trusting(records, model, response) ==
  [NoDecision EXCEPT
     !.returned = TRUE,
     !.success = TRUE,
     !.decision_model = model,
     !.computed = TRUE,
     !.answer_confidence =
        IF response.response = T_DECISION THEN Rat(1, 1)
        ELSE _calculate_answer_confidence(records),
     !.verification_consensus = _calculate_consensus(records),
     !.raw_response = response.response]

\* make_final_decision applied to the dict call_model returned
make_final_decision(records, model, response) ==
  IF ~response.success
    THEN DecisionFailure(model, response.error, Absent)
  ELSE LET parsed_response == parse_json_response(response.response) IN
    IF parsed_response.raised
      THEN DecisionFailure(model, parsed_response.exc, Absent)
    ELSE IF ~parsed_response.isdict
      THEN DecisionFailure(model, TYPE_ERROR_INT, Absent)
    ELSE IF parsed_response.obj.error # Absent
      THEN DecisionFailure(model, parsed_response.obj.error,
                           Get(parsed_response.obj, "raw_response", ""))
    ELSE [NoDecision EXCEPT
            !.returned = TRUE,
            !.success = TRUE,
            !.decision_model = model,
            !.final_answer = Get(parsed_response.obj, "final_answer", ""),
            !.reasoning = Get(parsed_response.obj, "reasoning", ""),
            !.evidence_analysis =
               Get(parsed_response.obj, "evidence_analysis", ""),
            !.computed = TRUE,
            !.answer_confidence = _calculate_answer_confidence(records),
            !.verification_consensus = _calculate_consensus(records),
            !.raw_response = response.response]

\* make_final_decision is entered: the default model, the context and the
\* prompt are prepared from the arguments, which are only read, and
\* call_model is entered
DecideInvoke ==
  /\ pc = "corrected"
  /\ decision_model' =
       IF decision_model = NoModel THEN DEFAULT_DECISION_MODEL
                                   ELSE decision_model
  /\ call' = EnterCall(decision_model')
  /\ client_calls' = client_calls \cup {<<"decision", 0, 0>>}
  /\ pc' = "decide_wait"
  /\ UNCHANGED <<entry, models, verification_models, i, j, answers,
                 verification_results, provider_log, connected>>
  /\ UNCHANGED <<run_inputs, verify_log, correction_state, decision,
                 orchestrator, result, parser, arguments,
                 slept>>

\* call_model returned: make_final_decision returns its dict
DecideReturn ==
  /\ pc = "decide_wait"
  /\ call.status = "returned"
  /\ decision' = make_final_decision(verification_results, decision_model, call)
  /\ call' = NoCall
  /\ pc' = "decided"
  /\ UNCHANGED <<entry, models, verification_models, i, j, answers,
                 verification_results, provider_log, client_calls, connected>>
  /\ UNCHANGED <<run_inputs, verify_log, correction_state, run_state, slept>>

\* the decision models of these calls: none given, an available one, one
\* that is not available
DecisionModels ==
  {NoModel, <<"openai", "llama-3.3-70b">>, <<"groq", "llama-3.3-70b", "x">>}

\* make_final_decision is called on any list of verification records
InitDecision ==
  /\ entry = "pipeline"
  /\ question = TEST_QUESTION
  /\ correction_model = DEFAULT_CORRECTION_MODEL
  /\ models = << >>
  /\ verification_models = << >>
  /\ answers = << >>
  /\ verification_results \in
       SeqsUpTo({ MetricRecord(v) : v \in {"Correct", "Incorrect"} },
                MaxRecords)
  /\ verified_for = << >>
  /\ verify_calls = << >>
  /\ tasks = << >>
  /\ ti = 1
  /\ correction_results = << >>
  /\ correction_calls = << >>
  /\ decision = NoDecision
  /\ orchestrator = "SystemCoordinator"
  /\ decision_model \in DecisionModels
  /\ result = NoResult
  /\ parser = NoParser
  /\ arguments = NoArguments
  /\ slept = FALSE
  /\ provider_log = {}
  /\ connected = FALSE
  /\ i = 1
  /\ j = 1
  /\ pc = "corrected"
  /\ call = NoCall
  /\ client_calls = {}

NextDecision ==
  \/ DecideInvoke
  \/ CallModelUnavailable
  \/ ProviderReturns
  \/ ProviderRaisesRetry
  \/ ProviderRaisesFinal
  \/ DecideReturn

SpecDecision == InitDecision /\ [][NextDecision]_vars

(***************************************************************************)
(* The two process_question methods, from the call to the result           *)
(***************************************************************************)
Orchestrators == {"SystemCoordinator", "LLMLogicSystem"}

\* an exception leaves a stage.  LLMLogicSystem.process_question catches
\* it, sets results['error'] and saves the results in its finally block;
\* SystemCoordinator.process_question has no handler, so the exception
\* leaves it and process_single_question does not reach save_results
Fault(error) ==
  IF orchestrator = "LLMLogicSystem"
    THEN [status |-> "returned", success |-> FALSE, error |-> error,
          saved |-> result.saved + 1]
    ELSE [status |-> "raised", success |-> FALSE, error |-> error,
          saved |-> result.saved]

\* LLMLogicSystem: if not successful_answers: results['success'] = False;
\* return results -- through the finally block, which saves them
NoSuccessfulAnswers ==
  /\ entry = "pipeline"
  /\ pc = "answering"
  /\ i > Len(models)
  /\ ShortCircuit
  /\ result' = [status |-> "returned", success |-> FALSE, error |-> Absent,
                saved |-> result.saved + 1]
  /\ pc' = "finished"
  /\ UNCHANGED <<entry, models, verification_models, i, j, answers,
                 verification_results, call, provider_log, client_calls,
                 connected>>
  /\ UNCHANGED <<run_inputs, verify_log, correction_state, decision,
                 orchestrator, decision_model, parser,
                 arguments, slept>>

\* correct_answers raises while it indexes the verification records
CorrectRaises ==
  /\ entry = "pipeline"
  /\ pc = "done"
  /\ unhashable_target(verification_results)
  /\ result' = Fault(TYPE_ERROR_UNHASHABLE)
  /\ pc' = "finished"
  /\ UNCHANGED <<entry, models, verification_models, i, j, answers,
                 verification_results, call, provider_log, client_calls,
                 connected>>
  /\ UNCHANGED <<run_inputs, verify_log, correction_state, decision,
                 orchestrator, decision_model, parser,
                 arguments, slept>>

\* what process_question makes of the dict make_final_decision returned.
\* SystemCoordinator: final_result, whose summary has overall_success =
\* decision_result['success']; process_single_question saves it.
\* LLMLogicSystem: final_decision['confidence_level'] is read when the
\* decision succeeded, a key the dict does not have; otherwise
\* results['success'] = final_decision['success']; the finally block saves
RunResult ==
  IF orchestrator = "SystemCoordinator"
    THEN [status |-> "returned", success |-> decision.success,
          error |-> Absent, saved |-> result.saved + 1]
  ELSE IF decision.success
    THEN Fault(KEY_ERROR_CONFIDENCE_LEVEL)
  ELSE [status |-> "returned", success |-> FALSE, error |-> Absent,
        saved |-> result.saved + 1]

\* make_final_decision has returned: process_question builds its result
ProcessQuestionReturn ==
  /\ entry = "pipeline"
  /\ pc = "decided"
  /\ decision.returned
  /\ result' = RunResult
  /\ pc' = "finished"
  /\ UNCHANGED <<entry, models, verification_models, i, j, answers,
                 verification_results, call, provider_log, client_calls,
                 connected>>
  /\ UNCHANGED <<run_inputs, verify_log, correction_state, decision,
                 orchestrator, decision_model, parser,
                 arguments, slept>>

\* process_question of either class with the default model lists
InitPipeline ==
  /\ entry = "pipeline"
  /\ question = TEST_QUESTION
  /\ correction_model = NoModel
  /\ verified_for = << >>
  /\ verify_calls = << >>
  /\ tasks = << >>
  /\ ti = 1
  /\ correction_results = << >>
  /\ correction_calls = << >>
  /\ decision = NoDecision
  /\ orchestrator \in Orchestrators
  /\ decision_model = NoModel
  /\ result = NoResult
  /\ parser = NoParser
  /\ arguments = NoArguments
  /\ slept = FALSE
  /\ models = DEFAULT_ANSWERING_MODELS
  /\ verification_models = DEFAULT_VERIFICATION_MODELS
  /\ answers = << >>
  /\ verification_results = << >>
  /\ provider_log = {}
  /\ connected = FALSE
  /\ pc = "answering"
  /\ i = 1
  /\ j = 1
  /\ call = NoCall
  /\ client_calls = {}

\* what message.content can be in these runs
PipelineContents ==
  IF pc = "answer_wait" THEN {T_ANSWER, T_ERROR}
  ELSE IF pc = "verify_wait" THEN {T_CORRECT, T_INCORRECT, T_LIST_TARGET}
  ELSE IF pc = "correct_wait" THEN {T_REVISED, T_PLAIN}
  ELSE {T_DECISION, T_ERROR}

\* self.client.chat.completions.create(...) returns, in these runs
ProviderReturnsPipeline ==
  /\ call.status = "running"
  /\ is_model_available(call.model_key)
  /\ \E content \in PipelineContents : call' = SuccessResult(call, content)
  /\ provider_log' = provider_log \cup {call.model_key}
  /\ UNCHANGED <<entry, models, verification_models, pc, i, j, answers,
                 verification_results, client_calls, connected>>
  /\ UNCHANGED <<run_inputs, verify_log, correction_state, decision, run_state, slept>>

NextPipeline ==
  \/ ProviderReturnsPipeline
  \/ ProviderRaisesRetry
  \/ ProviderRaisesFinal
  \/ AnswerInvoke
  \/ AnswerReturn
  \/ AnswerDone
  \/ NoSuccessfulAnswers
  \/ VerifySkipSelf
  \/ VerifySynthetic
  \/ VerifyInvoke
  \/ VerifyReturn
  \/ VerifyNextAnswer
  \/ VerifyDone
  \/ CorrectStart
  \/ CorrectRaises
  \/ CorrectInvoke
  \/ CorrectReturn
  \/ CorrectDone
  \/ DecideInvoke
  \/ DecideReturn
  \/ ProcessQuestionReturn

SpecPipeline == InitPipeline /\ [][NextPipeline]_vars

\* self.client.chat.completions.create(...) neither returns nor raises.
\* The call is synchronous and is made without a timeout
\* (Config.TIMEOUT_SECONDS is read nowhere), so call_model stays in it
ProviderNeverReturns ==
  /\ call.status = "running"
  /\ is_model_available(call.model_key)
  /\ call' = [call EXCEPT !.status = "blocked"]
  /\ provider_log' = provider_log \cup {call.model_key}
  /\ UNCHANGED <<entry, models, verification_models, pc, i, j, answers,
                 verification_results, client_calls, connected>>
  /\ UNCHANGED <<run_inputs, verify_log, correction_state, decision, run_state, slept>>

NextPipelineBlocking ==
  \/ ProviderReturnsPipeline
  \/ ProviderRaisesRetry
  \/ ProviderRaisesFinal
  \/ ProviderNeverReturns
  \/ AnswerInvoke
  \/ AnswerReturn
  \/ AnswerDone
  \/ NoSuccessfulAnswers
  \/ VerifySkipSelf
  \/ VerifySynthetic
  \/ VerifyInvoke
  \/ VerifyReturn
  \/ VerifyNextAnswer
  \/ VerifyDone
  \/ CorrectStart
  \/ CorrectRaises
  \/ CorrectInvoke
  \/ CorrectReturn
  \/ CorrectDone
  \/ DecideInvoke
  \/ DecideReturn
  \/ ProcessQuestionReturn

\* every step of the run that can be taken is taken: the event loop runs
\* the coroutine on, and a provider call that answers is answered
SpecPipelineFair ==
  InitPipeline /\ [][NextPipelineBlocking]_vars /\ WF_vars(NextPipelineBlocking)

(***************************************************************************)
(* LLMClient.call_model called on its own, with any retry ceiling          *)
(***************************************************************************)
MaxRetryCeiling == 3

\* max_retries: an int >= 0, or None, which stands for config.MAX_RETRIES
RetryCeilings == (0..MaxRetryCeiling) \cup {MAX_RETRIES}

\* await client.call_model(model_key, prompt, max_retries) has been entered
InitCall ==
  /\ entry = "call_model"
  /\ question = TEST_QUESTION
  /\ correction_model = NoModel
  /\ LaterStagesIdle
  /\ models = << >>
  /\ verification_models = << >>
  /\ answers = << >>
  /\ verification_results = << >>
  /\ provider_log = {}
  /\ connected = FALSE
  /\ i = 1
  /\ j = 1
  /\ pc = "call_wait"
  /\ client_calls = {<<"call_model", 0, 0>>}
  /\ \E model_key \in ModelIds, max_retries \in RetryCeilings :
       call = EnterCallWith(model_key, max_retries)

NextCall ==
  \/ CallModelUnavailable
  \/ ProviderReturns
  \/ ProviderRaisesRetry
  \/ ProviderRaisesFinal

SpecCall == InitCall /\ [][NextCall]_vars

\* every provider attempt that was started returns or raises, and every
\* asyncio.sleep ends
SpecCallFair == InitCall /\ [][NextCall]_vars /\ WF_vars(NextCall)

(***************************************************************************)
(* verify_answers on two answers of one model                              *)
(***************************************************************************)
\* the successful records _get_model_answer builds for model from the
\* contents a provider can return
SuccessfulAnswerRecords(model) ==
  { a \in { _get_model_answer(model, SuccessResult(EnterCall(model), content)) :
              content \in AnswerContents } : a.success }

\* verify_answers is entered with two successful answers of one model: the
\* record of T_ANSWER, and the same with the reasoning of another successful
\* answer
InitVerifyPair ==
  /\ entry = "pipeline"
  /\ question = TEST_QUESTION
  /\ correction_model = NoModel
  /\ LaterStagesIdle
  /\ \E model \in ModelIds :
       \E a1, a2 \in SuccessfulAnswerRecords(model) :
         /\ a1.raw_response = T_ANSWER
         /\ a1.reasoning # a2.reasoning
         /\ models = <<model, model>>
         /\ answers = <<a1, [a1 EXCEPT !.reasoning = a2.reasoning]>>
  /\ verification_models \in ModelLists(MaxVerifiers)
  /\ verification_results = << >>
  /\ provider_log = {}
  /\ connected = FALSE
  /\ pc = "verifying"
  /\ i = 1
  /\ j = 1
  /\ call = NoCall
  /\ client_calls = {}

NextVerifyPair ==
  \/ ProviderReturns
  \/ ProviderRaisesRetry
  \/ ProviderRaisesFinal
  \/ VerifySkipSelf
  \/ VerifySkipUnavailable
  \/ VerifyInvoke
  \/ VerifyReturn
  \/ VerifyNextAnswer
  \/ VerifyDone

SpecVerifyPair == InitVerifyPair /\ [][NextVerifyPair]_vars

(***************************************************************************)
(* process_question called with model lists of the caller's choice         *)
(***************************************************************************)
\* two configured verifiers whose short names differ from the short names
\* of both default answering models
OTHER_VERIFICATION_MODELS ==
  << <<"openai", "gpt-4o">>, <<"anthropic", "claude-3-haiku">> >>

\* the list arguments of the runs: none; the default answering models with
\* the two other verifiers; the lists of the limited mode; an empty
\* answering list
RunArguments ==
  { NoArguments,
    [answering_models |-> NoneArgument,
     verification_models |-> ListArgument(OTHER_VERIFICATION_MODELS)],
    [answering_models |-> ListArgument(LIMITED_MODE_ANSWERING_MODELS),
     verification_models |-> ListArgument(LIMITED_MODE_VERIFICATION_MODELS)],
    [answering_models |-> ListArgument(<< >>),
     verification_models |-> NoneArgument] }

\* if models is None: models = self.config.DEFAULT_ANSWERING_MODELS, and
\* the same test in verify_answers
list_used(argument, default) ==
  IF argument.is_none THEN default ELSE argument.list

\* the 'system_config' entry of final_result: argument or default, where an
\* empty list is as false as None.  correction_model and decision_model are
\* the variables the layers have resolved (never an empty string here)
system_config ==
  [answering_models |->
     IF arguments.answering_models.is_none
          \/ arguments.answering_models.list = << >>
       THEN DEFAULT_ANSWERING_MODELS ELSE arguments.answering_models.list,
   verification_models |->
     IF arguments.verification_models.is_none
          \/ arguments.verification_models.list = << >>
       THEN DEFAULT_VERIFICATION_MODELS
       ELSE arguments.verification_models.list,
   correction_model |->
     IF correction_model = NoModel THEN DEFAULT_CORRECTION_MODEL
                                   ELSE correction_model,
   decision_model |->
     IF decision_model = NoModel THEN DEFAULT_DECISION_MODEL
                                 ELSE decision_model]

InitConfigured ==
  /\ entry = "pipeline"
  /\ question = TEST_QUESTION
  /\ correction_model = NoModel
  /\ verified_for = << >>
  /\ verify_calls = << >>
  /\ tasks = << >>
  /\ ti = 1
  /\ correction_results = << >>
  /\ correction_calls = << >>
  /\ decision = NoDecision
  /\ orchestrator \in Orchestrators
  /\ decision_model = NoModel
  /\ result = NoResult
  /\ parser = NoParser
  /\ arguments \in RunArguments
  /\ slept = FALSE
  /\ models = list_used(arguments.answering_models, DEFAULT_ANSWERING_MODELS)
  /\ verification_models =
       list_used(arguments.verification_models, DEFAULT_VERIFICATION_MODELS)
  /\ answers = << >>
  /\ verification_results = << >>
  /\ provider_log = {}
  /\ connected = FALSE
  /\ pc = "answering"
  /\ i = 1
  /\ j = 1
  /\ call = NoCall
  /\ client_calls = {}

SpecConfigured == InitConfigured /\ [][NextPipeline]_vars

(***************************************************************************)
(* llm_client.py: parse_json_response called on its own, on one response   *)
(* text after another (the method keeps no state between calls)            *)
(***************************************************************************)
MaxTexts == 2

ParserTexts ==
  {T_ANSWER, T_NUMBER, T_MULTILINE, T_EMBEDDED, T_FRAGMENT, T_PLAIN, T_DEEP}

ParseResponse ==
  /\ entry = "parse_json_response"
  /\ Len(parser.results) < Len(parser.texts)
  /\ parser' = [parser EXCEPT !.results =
                  Append(@, parse_json_response(
                              parser.texts[Len(parser.results) + 1]))]
  /\ UNCHANGED <<entry, models, verification_models, pc, i, j, answers,
                 verification_results, call, provider_log, client_calls,
                 connected, run_inputs, verify_log, correction_state,
                 decision, orchestrator, decision_model, result,
                 arguments, slept>>

InitParse ==
  /\ entry = "parse_json_response"
  /\ question = TEST_QUESTION
  /\ correction_model = DEFAULT_CORRECTION_MODEL
  /\ models = << >>
  /\ verification_models = << >>
  /\ answers = << >>
  /\ verification_results = << >>
  /\ verified_for = << >>
  /\ verify_calls = << >>
  /\ tasks = << >>
  /\ ti = 1
  /\ correction_results = << >>
  /\ correction_calls = << >>
  /\ decision = NoDecision
  /\ orchestrator = "SystemCoordinator"
  /\ decision_model = NoModel
  /\ result = NoResult
  /\ parser \in { [texts |-> t, results |-> << >>] :
                     t \in SeqsUpTo(ParserTexts, MaxTexts) }
  /\ arguments = NoArguments
  /\ slept = FALSE
  /\ provider_log = {}
  /\ connected = FALSE
  /\ i = 1
  /\ j = 1
  /\ pc = "idle"
  /\ call = NoCall
  /\ client_calls = {}

NextParse == ParseResponse

SpecParse == InitParse /\ [][NextParse]_vars

(***************************************************************************)
(* Properties                                                              *)
(***************************************************************************)
\* the identifier is a provider/model pair of the static configuration table
Configured(model_key) ==
  \E p \in DOMAIN AVAILABLE_MODELS :
    \E m \in AVAILABLE_MODELS[p] : model_key = <<p, m>>

\* the unqualified model name of an identifier, for the properties
ShortIdentity(model_key) ==
  IF Len(model_key) = 2 THEN <<model_key[2]>> ELSE model_key

\* process_question has returned its answers to the coordinator
AnsweringReturned ==
  entry = "pipeline" /\ pc \in {"verifying", "verify_wait", "done"}

\* verify_answers has returned its records
VerificationReturned == entry = "pipeline" /\ pc = "done"

\* the text parses, strictly or after the repair of its reasoning field,
\* into a JSON object; StructuredObject is that object
IsStructured(text) ==
  \/ json_loads(text).raises = "none" /\ json_loads(text).isdict
  \/ /\ json_loads(text).raises = "JSONDecodeError"
     /\ search_block(text) # Absent
     /\ json_loads(fix_reasoning(search_block(text))).raises = "none"
StructuredObject(text) ==
  IF json_loads(text).raises = "none"
    THEN json_loads(text).obj
    ELSE json_loads(fix_reasoning(search_block(text))).obj

\* C1: in every VerificationRecord returned by verify_answers the short
\* identity of verification_model differs from that of target_model.
C1_CrossValidation ==
  \A k \in 1..Len(verification_results) :
    ShortIdentity(verification_results[k].verification_model)
      # ShortIdentity(verification_results[k].target_model)

\* C2: process_question returns exactly one AnswerRecord per requested model,
\* in the order of the list.
C2_OneRecordPerModel ==
  AnsweringReturned =>
    /\ Len(answers) = Len(models)
    /\ \A k \in 1..Len(models) : answers[k].model = models[k]

\* C3: a requested identifier that does not resolve to a configured
\* provider/model pair gets a failure AnswerRecord.
C3_UnresolvableGetsFailureRecord ==
  AnsweringReturned =>
    \A k \in 1..Len(models) :
      ~Configured(models[k]) =>
        \E n \in 1..Len(answers) :
          answers[n].model = models[k] /\ ~answers[n].success

\* C4: no provider call is issued for an identifier outside the static
\* configuration table: call_model returns a failure for it with no attempt
\* and no retry wait, and the answering and verification loops never enter
\* call_model with it.
C4_NoCallForUnconfigured ==
  /\ \A model_key \in provider_log : Configured(model_key)
  /\ (call.status # "idle" /\ ~Configured(call.model_key)) =>
       /\ call.attempt = 0
       /\ call.wait = 0
       /\ call.status = "returned" => (~call.success /\ call.response = None)
  /\ \A c \in client_calls :
       /\ c[1] = "answering" => Configured(models[c[2]])
       /\ c[1] = "verification" => Configured(verification_models[c[3]])

\* C4 witness: call_model, entered with an unconfigured identifier, has
\* returned its failure
C4_Witness ==
  /\ call.status = "returned"
  /\ ~Configured(call.model_key)
  /\ ~call.success
  /\ provider_log = {}

\* C5: when call_model returns a failure for an answering model, or the
\* handling of its response raises, the record appended for that model has
\* success = False, answer and reasoning None and the error captured, the
\* loop goes on to the next model, and when the stage returns every
\* configured model of the list has been queried and has its record.
C5_FailureCapturedAndLoopContinues ==
  [][ /\ ( /\ pc = "answer_wait"
           /\ call.status = "returned"
           /\ pc' = "answering"
           /\ (~call.success \/ call.response = None) ) =>
           /\ answers' =
                Append(answers,
                       [model |-> models[i], success |-> FALSE,
                        error |-> IF ~call.success THEN call.error
                                                   ELSE TYPE_ERROR_NONE,
                        answer |-> None, reasoning |-> None,
                        raw_response |-> Absent])
           /\ i' = i + 1
      /\ (pc = "answering" /\ pc' = "verifying") =>
           /\ \A k \in 1..Len(models) :
                Configured(models[k]) => <<"answering", k, 0>> \in client_calls
           /\ Len(answers) =
                Cardinality({k \in 1..Len(models) : Configured(models[k])})
    ]_vars

\* C5 witness: the first model's invocation failed after the retries, its
\* failure record is kept and the second model was queried and has a record
C5_Witness ==
  /\ VerificationReturned
  /\ Len(answers) = 2
  /\ ~answers[1].success
  /\ answers[1].error = "Connection error"
  /\ answers[1].answer = None
  /\ <<"answering", 2, 0>> \in client_calls

\* C6: an answer whose provider text does not parse into a structured object
\* with the answer and reasoning fields is recorded as a failure, never as a
\* success.
C6_UnparseableAnswerFails ==
  \A k \in 1..Len(answers) :
    answers[k].success =>
      /\ IsStructured(answers[k].raw_response)
      /\ StructuredObject(answers[k].raw_response).answer # Absent
      /\ StructuredObject(answers[k].raw_response).reasoning # Absent

\* C7: verify_answers emits exactly one record per (answer, verifier) pair
\* whose short identities differ and none for the other pairs.
C7_OneRecordPerCrossPair ==
  VerificationReturned =>
    Len(verification_results) =
      Cardinality({ pair \in (1..Len(answers)) \X (1..Len(verification_models)) :
                      ShortIdentity(answers[pair[1]].model)
                        # ShortIdentity(verification_models[pair[2]]) })

\* C8: for an answer with success = False every verifier with a different
\* short identity yields a record with verdict Incorrect that carries the
\* answer's failure message, and no verifier is invoked for that answer.
C8_FailedAnswerSynthetic ==
  VerificationReturned =>
    \A a \in 1..Len(answers) :
      ~answers[a].success =>
        \A v \in 1..Len(verification_models) :
          /\ <<"verification", a, v>> \notin client_calls
          /\ ShortIdentity(verification_models[v])
               # ShortIdentity(answers[a].model) =>
               \E n \in 1..Len(verification_results) :
                 /\ verification_results[n].verification_model
                      = verification_models[v]
                 /\ verification_results[n].target_model = answers[a].model
                 /\ verification_results[n].verdict = "Incorrect"
                 /\ verification_results[n].error_reason
                      = ANSWERING_FAILED_PREFIX \o answers[a].error

\* C9: a verifier whose invocation fails, or whose text does not parse into
\* a structured object with a verdict, gives a record with verdict Error and
\* success = False.
C9_VerifierFailureIsError ==
  \A k \in 1..Len(verification_results) :
    LET r == verification_results[k] IN
      ( /\ r.raw_response \in VerifyContents
        /\ ~( /\ IsStructured(r.raw_response)
              /\ StructuredObject(r.raw_response).verdict # Absent ) ) =>
        (r.verdict = "Error" /\ ~r.success)

\* C10: every VerificationRecord has a verdict among Correct, Incorrect,
\* Error.
C10_VerdictDomain ==
  \A k \in 1..Len(verification_results) :
    verification_results[k].verdict \in {"Correct", "Incorrect", "Error"}

\* the verifier invocations made for the answer at position n, in order
InvocationsFor(n) ==
  LET calls == SelectSeq(verify_calls, LAMBDA c : c.answer = n) IN
    [c \in 1..Len(calls) |->
       [model_key |-> calls[c].model_key, prompt |-> calls[c].prompt]]

\* two answer records that differ in their reasoning and in nothing else
DifferOnlyInReasoning(a1, a2) ==
  /\ a1.reasoning # a2.reasoning
  /\ [a1 EXCEPT !.reasoning = a2.reasoning] = a2

\* C11: when verify_answers has handled two successful AnswerRecords that
\* differ only in their reasoning text, the verifier invocations made for
\* the one (verifier and prompt, in order) are those made for the other.
C11_PromptIgnoresReasoning ==
  ( /\ pc = "done"
    /\ Len(answers) = 2
    /\ answers[1].success
    /\ answers[2].success
    /\ DifferOnlyInReasoning(answers[1], answers[2]) )
  => InvocationsFor(1) = InvocationsFor(2)

C11_Witness ==
  /\ pc = "done"
  /\ Len(answers) = 2
  /\ answers[1].success
  /\ answers[2].success
  /\ DifferOnlyInReasoning(answers[1], answers[2])
  /\ Len(InvocationsFor(1)) = 2
  /\ Len(InvocationsFor(2)) = 2

\* correct_answers has returned its records to the coordinator
CorrectionReturned == entry = "pipeline" /\ pc = "corrected"

\* the Verification stage produced a record with verdict Incorrect for the
\* answer at position n
HasIncorrectRecord(n) ==
  \E r \in 1..Len(verification_results) :
    /\ verified_for[r] = n
    /\ verification_results[r].verdict = "Incorrect"

\* the invocations of the correction model made for the answer record a
InvocationsForAnswer(a) ==
  { c \in 1..Len(correction_calls) :
      tasks[correction_calls[c].task].original_answer = a }

\* C12: after a run of the first three stages, every successful AnswerRecord
\* for which the Verification stage produced a record with verdict Incorrect
\* has a CorrectionRecord with needs_correction = true, and the correction
\* model was invoked once for it.
C12_IncorrectVerdictGetsCorrection ==
  CorrectionReturned =>
    \A n \in 1..Len(answers) :
      (answers[n].success /\ HasIncorrectRecord(n)) =>
        /\ \E c \in 1..Len(correction_results) :
             /\ correction_results[c].model = answers[n].model
             /\ correction_results[c].needs_correction
        /\ Cardinality(InvocationsForAnswer(answers[n])) = 1

\* some record of the list targets model with verdict Incorrect
TargetedIncorrect(model) ==
  \E r \in 1..Len(verification_results) :
    /\ verification_results[r].target_model = model
    /\ verification_results[r].verdict = "Incorrect"

\* C13: a successful answer whose model no VerificationRecord with verdict
\* Incorrect targets has, when correct_answers returns, a record with
\* needs_correction = false, correction_applied = false and the revised
\* answer and reasoning equal to the original ones, and the correction model
\* was not invoked for it.
C13_PassThroughWithoutIncorrect ==
  CorrectionReturned =>
    \A n \in 1..Len(answers) :
      (answers[n].success /\ ~TargetedIncorrect(answers[n].model)) =>
        /\ \E c \in 1..Len(correction_results) :
             /\ correction_results[c].model = answers[n].model
             /\ ~correction_results[c].needs_correction
             /\ ~correction_results[c].correction_applied
             /\ correction_results[c].original_answer = answers[n].answer
             /\ correction_results[c].revised_answer = answers[n].answer
             /\ correction_results[c].original_reasoning = answers[n].reasoning
             /\ correction_results[c].revised_reasoning = answers[n].reasoning
        /\ InvocationsForAnswer(answers[n]) = {}

C13_Witness ==
  /\ CorrectionReturned
  /\ Len(correction_calls) = 1
  /\ \E n \in 1..Len(answers) :
       /\ answers[n].success
       /\ ~TargetedIncorrect(answers[n].model)
       /\ \E r \in 1..Len(verification_results) :
            /\ verification_results[r].target_model = answers[n].model
            /\ verification_results[r].verdict = "Correct"

\* the number of successful answers of model, and of its correction records
SuccessfulAnswersOf(model) ==
  Cardinality({ n \in 1..Len(answers) :
                  answers[n].success /\ answers[n].model = model })
CorrectionRecordsOf(model) ==
  Cardinality({ c \in 1..Len(correction_results) :
                  correction_results[c].model = model })

\* C14: the list correct_answers returns has exactly one CorrectionRecord for
\* each AnswerRecord with success = true and none for one with success =
\* false: per model identifier, as many records as successful answers.
C14_OneRecordPerSuccessfulAnswer ==
  CorrectionReturned =>
    /\ Len(correction_results)
         = Cardinality({ n \in 1..Len(answers) : answers[n].success })
    /\ \A model \in ModelIds :
         CorrectionRecordsOf(model) = SuccessfulAnswersOf(model)

C14_Witness ==
  /\ CorrectionReturned
  /\ Len(answers) = 2
  /\ Len(correction_results) = 1
  /\ answers[1].model # answers[2].model
  /\ \E n \in 1..2 : ~answers[n].success /\ TargetedIncorrect(answers[n].model)

\* the position in the verification record list of the first record that
\* targets model with verdict Incorrect
FirstIncorrect(model) ==
  CHOOSE r \in 1..Len(verification_results) :
    /\ verification_results[r].target_model = model
    /\ verification_results[r].verdict = "Incorrect"
    /\ \A q \in 1..(r - 1) :
         ~ /\ verification_results[q].target_model = model
           /\ verification_results[q].verdict = "Incorrect"

\* C15: every invocation of the correction model carries the verdict and
\* the reason of the first record, in the order of the verification record
\* list, that targets the answer's model with verdict Incorrect.
C15_FirstIncorrectIsUsed ==
  \A c \in 1..Len(correction_calls) :
    LET model == tasks[correction_calls[c].task].original_answer.model
        first == verification_results[FirstIncorrect(model)]
    IN /\ correction_calls[c].prompt.verdict = first.verdict
       /\ correction_calls[c].prompt.error_reason = first.error_reason

C15_Witness ==
  /\ CorrectionReturned
  /\ Len(correction_calls) = 1
  /\ Len(verification_results) >= 2
  /\ verification_results[1].verdict = "Incorrect"
  /\ verification_results[2].verdict = "Incorrect"
  /\ verification_results[1].target_model = verification_results[2].target_model
  /\ verification_results[1].error_reason # verification_results[2].error_reason
  /\ correction_calls[1].prompt.error_reason = verification_results[1].error_reason

\* the record _correct_single_answer has just returned
LastCorrection == correction_results[Len(correction_results)]

\* C16: when the invocation of the correction model fails or its response
\* is not structured text, the CorrectionRecord appended for the task has
\* success = false, correction_applied = false and needs_correction = true.
C16_FailedCorrectionIsFailure ==
  [][ ( /\ pc = "correct_wait"
        /\ pc' = "correcting"
        /\ (~call.success \/ ~IsStructured(call.response)) )
      => /\ LastCorrection'.has_success
         /\ ~LastCorrection'.success
         /\ ~LastCorrection'.correction_applied
         /\ LastCorrection'.needs_correction ]_vars

\* C17 as stated: after a run in which an answering model failed, the
\* correction collection has a record of that model with needs_correction =
\* true.
C17_FailedAnswerHasCorrectionRecord ==
  CorrectionReturned =>
    \A n \in 1..Len(answers) :
      ~answers[n].success =>
        \E c \in 1..Len(correction_results) :
          /\ correction_results[c].model = answers[n].model
          /\ correction_results[c].needs_correction

\* C17, amended: after a run in which an answering model failed, the
\* correction collection has no record of that model; and a record appended
\* after a failed invocation of the correction model has needs_correction =
\* true, correction_applied = false and success = false.
C17_FailedAnswerHasNoCorrectionRecord ==
  [][ /\ CorrectionReturned' =>
           \A n \in 1..Len(answers') :
             ~answers'[n].success =>
               \A c \in 1..Len(correction_results') :
                 correction_results'[c].model # answers'[n].model
      /\ (pc = "correct_wait" /\ pc' = "correcting" /\ ~call.success) =>
           /\ LastCorrection'.needs_correction
           /\ LastCorrection'.has_success
           /\ ~LastCorrection'.success
           /\ ~LastCorrection'.correction_applied ]_vars

C17_Witness ==
  /\ CorrectionReturned
  /\ Len(answers) = 2
  /\ ~answers[2].success
  /\ Len(correction_results) = 1
  /\ correction_results[1].model = answers[1].model
  /\ correction_results[1].needs_correction
  /\ correction_results[1].has_success
  /\ ~correction_results[1].success
  /\ correction_results[1].error \notin {TYPE_ERROR_NONE, TYPE_ERROR_INT, "e"}

\* the positions of the verification record list with the given verdict
WithVerdict(verdict) ==
  { n \in 1..Len(verification_results) :
      verification_results[n].verdict = verdict }

\* C18: the answer confidence equals the number of verification records
\* with verdict Correct divided by the number of records, equals 0.5 when
\* there are no records, and lies in [0,1].
C18_ConfidenceIsCorrectShare ==
  decision.computed =>
    LET c == decision.answer_confidence
        total == Len(verification_results)
    IN /\ total > 0 => RatEq(c, Rat(Cardinality(WithVerdict("Correct")), total))
       /\ total = 0 => RatEq(c, Rat(1, 2))
       /\ c.den > 0
       /\ RatGeq(c, Rat(0, 1))
       /\ RatGeq(Rat(1, 1), c)

C18_Witness ==
  /\ decision.computed
  /\ Len(verification_results) = 3
  /\ Cardinality(WithVerdict("Correct")) = 2
  /\ Cardinality(WithVerdict("Error")) = 1
  /\ RatEq(decision.answer_confidence, Rat(2, 3))

\* C19 as stated: the answer confidence is 0.5 if and only if the
\* verification record list is empty.
C19_HalfOnlyWhenEmpty ==
  decision.computed =>
    (RatEq(decision.answer_confidence, Rat(1, 2))
       <=> verification_results = << >>)

\* C19, amended: the answer confidence is 0.5 when the list is empty, and
\* for a non-empty list it is 0.5 exactly when half of the records have
\* verdict Correct.
C19_HalfWhenEmptyOrHalfCorrect ==
  decision.computed =>
    /\ verification_results = << >> =>
         RatEq(decision.answer_confidence, Rat(1, 2))
    /\ verification_results # << >> =>
         (RatEq(decision.answer_confidence, Rat(1, 2))
            <=> 2 * Cardinality(WithVerdict("Correct"))
                  = Len(verification_results))

C19_Witness ==
  /\ decision.computed
  /\ Len(verification_results) = 2
  /\ verification_results[1].verdict = "Correct"
  /\ verification_results[2].verdict = "Incorrect"
  /\ RatEq(decision.answer_confidence, Rat(1, 2))

\* the sum of the counts of a verdict distribution
RECURSIVE SumOfCounts(_)
SumOfCounts(counts) ==
  IF DOMAIN counts = {} THEN 0
  ELSE LET v == CHOOSE w \in DOMAIN counts : TRUE
       IN counts[v] + SumOfCounts([w \in DOMAIN counts \ {v} |-> counts[w]])

\* C20: consensus_rate is the largest verdict tally divided by the number of
\* records, the verdict distribution maps each occurring verdict to its
\* count and its counts sum to the number of records, and with no records
\* consensus_rate is 0 and agreement_level is "No Data".
C20_ConsensusRateIsMaxShare ==
  decision.computed =>
    LET consensus == decision.verification_consensus
        total == Len(verification_results)
        occurring == { verification_results[n].verdict : n \in 1..total }
    IN /\ total = 0 =>
            /\ RatEq(consensus.consensus_rate, Rat(0, 1))
            /\ consensus.agreement_level = "No Data"
       /\ total > 0 =>
            /\ consensus.has_distribution
            /\ DOMAIN consensus.verdict_distribution = occurring
            /\ \A v \in occurring :
                 consensus.verdict_distribution[v] = Cardinality(WithVerdict(v))
            /\ SumOfCounts(consensus.verdict_distribution) = total
            /\ \E v \in occurring :
                 /\ RatEq(consensus.consensus_rate,
                          Rat(Cardinality(WithVerdict(v)), total))
                 /\ \A w \in occurring :
                      Cardinality(WithVerdict(w)) <= Cardinality(WithVerdict(v))

C20_Witness ==
  /\ decision.computed
  /\ Len(verification_results) = 4
  /\ Cardinality(WithVerdict("Correct")) = 2
  /\ Cardinality(WithVerdict("Incorrect")) = 1
  /\ Cardinality(WithVerdict("Error")) = 1
  /\ RatEq(decision.verification_consensus.consensus_rate, Rat(1, 2))


\* C21: for a non-empty verification record list the agreement level is
\* "High Consensus" exactly when the consensus rate is at least 4/5,
\* "Moderate Consensus" exactly when it is at least 3/5 and below 4/5, and
\* "Low Consensus" exactly when it is below 3/5; the rates 4/5 and 3/5
\* themselves are High and Moderate
C21_AgreementLevelThresholds ==
  (pc = "decided" /\ verification_results # << >>) =>
    LET num == decision.verification_consensus.consensus_rate.num
        den == decision.verification_consensus.consensus_rate.den
        level == decision.verification_consensus.agreement_level
    IN /\ (level = "High Consensus") <=> (10 * num >= 8 * den)
       /\ (level = "Moderate Consensus")
            <=> (10 * num >= 6 * den /\ 10 * num < 8 * den)
       /\ (level = "Low Consensus") <=> (10 * num < 6 * den)

\* five records, four of them with the same verdict: the rate is exactly 4/5
C21_Witness ==
  /\ pc = "decided"
  /\ Len(verification_results) = 5
  /\ Cardinality(WithVerdict("Incorrect")) = 4
  /\ decision.verification_consensus.agreement_level = "High Consensus"

\* five records, three of them with the same verdict and the other two
\* different: the rate is exactly 3/5
C21_WitnessModerate ==
  /\ pc = "decided"
  /\ Len(verification_results) = 5
  /\ Cardinality(WithVerdict("Correct")) = 3
  /\ Cardinality(WithVerdict("Error")) = 1
  /\ decision.verification_consensus.agreement_level = "Moderate Consensus"


\* call_model has returned its dict
CallReturned == entry = "call_model" /\ call.status = "returned"

\* an attempt of the provider call ends in this step
AttemptEnds ==
  /\ call.status = "running"
  /\ call'.provider_calls = call.provider_calls + 1

C27_AtMostCeilingPlusOne ==
  /\ call.provider_calls <= call.max_retries + 1
  /\ call.status = "running" => call.provider_calls <= call.max_retries
  /\ call.status = "running" => ~call.success
  /\ (CallReturned /\ call.success) => call.error = Absent
  /\ (CallReturned /\ ~call.success /\ call.provider_calls > 0) =>
       /\ call.provider_calls = call.max_retries + 1
       /\ call.error # Absent
       /\ call.response = None

C27_ReturnEndsAttempts ==
  /\ call.status = "returned" => call' = call
  /\ (AttemptEnds /\ call'.response \notin {Absent, None}) =>
       (call'.status = "returned" /\ call'.success)
  /\ (AttemptEnds /\ call.provider_calls = call.max_retries) =>
       call'.status = "returned"

C28_RateLimitError(error_str) == error_str # "Connection error"

\* C28: the wait before the retry that follows failed attempt k is
\* 10 + 5k, more than the wait before, when the error is a rate-limit
\* error and 2 after any other error; the final attempt is followed by no
\* wait
C28_WaitAfterFailedAttempt ==
  [][AttemptEnds =>
       IF call'.status = "running"
         THEN /\ call'.attempt = call.attempt + 1
              /\ C28_RateLimitError(call'.last_error) =>
                   /\ call'.wait = 10 + 5 * call.attempt
                   /\ call'.wait > call.wait
              /\ ~C28_RateLimitError(call'.last_error) => call'.wait = 2
         ELSE call'.wait = call.wait]_vars

\* the third attempt failed with the second wording of a rate-limit error
\* and call_model slept 20 seconds
C28_Witness ==
  /\ entry = "call_model"
  /\ call.status = "running"
  /\ call.attempt = 3
  /\ call.last_error = RATE_LIMIT_REACHED
  /\ call.wait = 20



\* make_final_decision has returned its dict
DecisionReturned == pc = "decided" /\ decision.returned

\* the response of the decision model is one the parser cannot read as the
\* JSON object asked for
UnparseableDecision(text) == text \in {T_PLAIN, T_NUMBER, None}

\* C22: when the decision model's invocation fails or its response cannot
\* be parsed, make_final_decision returns success = false with the error,
\* and the result has no final_answer, no answer_confidence and no
\* verification_consensus
C22_FailedDecisionHasNoAnswer ==
  [][(pc = "decide_wait" /\ pc' = "decided"
       /\ (~call.success \/ UnparseableDecision(call.response))) =>
      /\ ~decision'.success
      /\ decision'.error # Absent
      /\ decision'.final_answer = Absent
      /\ ~decision'.computed]_vars

\* C23: in a successful decision result the answer confidence and the
\* verification consensus are the values computed from the verification
\* records alone, whatever the decision model answered
C23_MetricsFromRecordsOnly ==
  (DecisionReturned /\ decision.success) =>
    /\ decision.computed
    /\ decision.answer_confidence
         = _calculate_answer_confidence(verification_results)
    /\ decision.verification_consensus
         = _calculate_consensus(verification_results)

\* a successful decision on two records, one Correct, whose model answered
\* with its own JSON object
C23_Witness ==
  /\ DecisionReturned
  /\ decision.success
  /\ decision.raw_response = T_DECISION
  /\ Len(verification_results) = 2
  /\ RatEq(decision.answer_confidence, Rat(1, 2))



\* the stage a position of process_question belongs to
StageOf(position) ==
  CASE position \in {"answering", "answer_wait"} -> 1
    [] position \in {"verifying", "verify_wait", "done"} -> 2
    [] position \in {"correcting", "correct_wait", "corrected"} -> 3
    [] position \in {"decide_wait", "decided"} -> 4
    [] OTHER -> 5

\* the stage a model invocation was issued by
StageOfCall(c) ==
  CASE c[1] = "answering" -> 1
    [] c[1] = "verification" -> 2
    [] c[1] = "correction" -> 3
    [] OTHER -> 4

\* the answering stage has a record for every model of its list
AnsweringComplete == Len(answers) = Len(models)

\* the pairs of an answer and a verifier that verify_answers does not skip
VerificationPairs ==
  { <<a, v>> \in (1..Len(passed_answers)) \X (1..Len(verification_models)) :
      _get_model_short_name(verification_models[v])
        # _get_model_short_name(passed_answers[a].model) }

\* the verification stage has a record for every such pair
VerificationComplete ==
  Len(verification_results) = Cardinality(VerificationPairs)

\* the correction stage has a record for every successful answer
CorrectionComplete ==
  Len(correction_results)
    = Cardinality({ n \in 1..Len(passed_answers) : passed_answers[n].success })

\* C24: in every run of either orchestrator the stages run in the order
\* answering, verification, correction, decision: the run never goes back
\* to an earlier stage, and a model invocation of a stage is issued only
\* when every earlier stage has its records for all of its items and no
\* later stage has issued one
C24_StagesInOrder ==
  [][/\ StageOf(pc') >= StageOf(pc)
     /\ \A c \in client_calls' \ client_calls :
          /\ StageOfCall(c) = StageOf(pc')
          /\ \A d \in client_calls : StageOfCall(d) <= StageOfCall(c)
          /\ StageOfCall(c) >= 2 => AnsweringComplete
          /\ StageOfCall(c) >= 3 => VerificationComplete
          /\ StageOfCall(c) >= 4 => CorrectionComplete]_vars

\* a run of LLMLogicSystem that invoked models in all four stages
C24_Witness ==
  /\ orchestrator = "LLMLogicSystem"
  /\ pc = "finished"
  /\ { StageOfCall(c) : c \in client_calls } = {1, 2, 3, 4}

\* the answering stage has returned and none of its answers is successful
AnsweredWithoutSuccess ==
  /\ entry = "pipeline"
  /\ StageOf(pc) >= 2
  /\ successful_answers = << >>

\* C25: when the answering stage yields no successful answer the run
\* returns a failed result and no verification, correction or decision
\* model is invoked, with either orchestrator
C25_NoSuccessfulAnswerShortCircuits ==
  AnsweredWithoutSuccess =>
    /\ \A c \in client_calls : StageOfCall(c) = 1
    /\ pc = "finished" => (result.status = "returned" /\ ~result.success)

\* C26: a fault raised inside a stage is caught by process_question and
\* becomes a result with success = false and the error message, and on
\* every path exactly one document is written for the run
C26_FaultBecomesFailedResult ==
  pc = "finished" =>
    /\ result.status = "returned"
    /\ result.saved = 1
    /\ unhashable_target(verification_results) =>
         (~result.success /\ result.error = TYPE_ERROR_UNHASHABLE)

\* C30: once a stage has returned its records no later step changes them:
\* the answer records after answering, the verification records after
\* verification, the correction records after correction
C30_ReturnedRecordsUnchanged ==
  [][/\ StageOf(pc) >= 2 => answers' = answers
     /\ (StageOf(pc) >= 3 \/ pc = "done") =>
          verification_results' = verification_results
     /\ (StageOf(pc) >= 4 \/ pc = "corrected") =>
          correction_results' = correction_results]_vars

\* a finished run in which a correction was applied and a decision made,
\* the corrected answer record still holding the original answer
C30_Witness ==
  /\ pc = "finished"
  /\ decision.returned
  /\ \E n \in 1..Len(correction_results) :
       /\ correction_results[n].correction_applied
       /\ correction_results[n].revised_answer = "Yes"
       /\ \E m \in 1..Len(answers) :
            /\ answers[m].model = correction_results[n].model
            /\ answers[m].answer = "No"



\* C29: every run eventually completes: a provider call that never
\* returns is cut off by a timeout and becomes a failure record, and the
\* run reaches its final result
C29_RunCompletes == <>(pc = "finished")

\* C40: for a non-empty verification record list the consensus rate is at
\* least the answer confidence and at least 1 / (number of distinct
\* verdicts occurring), it is greater than 0 and at most 1, and the two
\* metrics are equal whenever no verdict occurs more often than Correct
C40_ConsensusBoundsConfidence ==
  (pc = "decided" /\ decision.computed /\ verification_results # << >>) =>
    LET rate == decision.verification_consensus.consensus_rate
        occurring == { verification_results[n].verdict :
                         n \in 1..Len(verification_results) }
    IN /\ RatGeq(rate, decision.answer_confidence)
       /\ RatGeq(rate, Rat(1, Cardinality(occurring)))
       /\ rate.num > 0
       /\ RatGeq(Rat(1, 1), rate)
       /\ (\A v \in occurring :
             Cardinality(WithVerdict(v)) <= Cardinality(WithVerdict("Correct")))
            => RatEq(rate, decision.answer_confidence)

\* five records, Correct and Incorrect twice each and one Error: Correct is
\* a most frequent verdict and both metrics are 2/5
C40_Witness ==
  /\ pc = "decided"
  /\ decision.computed
  /\ Cardinality(WithVerdict("Correct")) = 2
  /\ Cardinality(WithVerdict("Incorrect")) = 2
  /\ Cardinality(WithVerdict("Error")) = 1
  /\ RatEq(decision.answer_confidence, Rat(2, 5))
  /\ RatEq(decision.verification_consensus.consensus_rate, Rat(2, 5))

\* the texts json.loads accepts as they are / the texts that hold a JSON
\* object once the block is cut out and the line breaks inside its
\* reasoning value are replaced / the texts that hold neither
WellFormedTexts == {T_ANSWER, T_NUMBER}
RepairableTexts == {T_MULTILINE, T_EMBEDDED}
Parsed == { n \in 1..Len(parser.results) : TRUE }

\* C31: the parser returns the result of the first tier that succeeds, in
\* the order strict, repaired, best-effort, failure: a well-formed text gives
\* the strict result unchanged, a repairable text the repaired result,
\* every other text a result flagged parse_warning or a failure; only
\* best-effort results carry parse_warning, and no text makes it raise
C31_TiersInOrder ==
  \A n \in Parsed :
    LET text == parser.texts[n]
        r == parser.results[n]
    IN /\ ~r.raised
       /\ text = T_ANSWER =>
            (r.isdict /\ r.obj = [EmptyDict EXCEPT !.answer = "No",
                                                    !.reasoning = "r"])
       /\ text = T_NUMBER => ~r.isdict
       /\ text = T_MULTILINE =>
            (r.isdict /\ r.obj = [EmptyDict EXCEPT !.answer = "No",
                                                    !.reasoning = "a b"])
       /\ text = T_EMBEDDED =>
            (r.isdict /\ r.obj = [EmptyDict EXCEPT !.answer = "No",
                                                    !.reasoning = "r"])
       /\ text \notin WellFormedTexts \cup RepairableTexts =>
            (r.isdict /\ (r.obj.parse_warning \/ r.obj.error # Absent))
       /\ (r.isdict /\ r.obj.parse_warning) =>
            text \notin WellFormedTexts \cup RepairableTexts

\* neither the strict nor the repaired tier applies and the text holds no
\* answer and no reasoning field
NothingExtractable(text) ==
  /\ json_loads(text).raises = "JSONDecodeError"
  /\ search_block(text) = Absent
  /\ answer_match(text) = Absent
  /\ reasoning_match(text) = Absent

\* C32: for a text that is neither strictly parseable nor repairable and
\* from which neither an answer nor a reasoning can be extracted, the
\* parser returns a ParseFailure (an error and the raw text), not a
\* structured result
C32_UnextractableIsFailure ==
  \A n \in Parsed :
    NothingExtractable(parser.texts[n]) =>
      /\ ~parser.results[n].raised
      /\ parser.results[n].obj.error # Absent
      /\ parser.results[n].obj.raw_response = parser.texts[n]
      /\ parser.results[n].obj.answer = Absent

\* the models of the successful answers handed to correct_answers, in the
\* order of the answer list
SuccessfulModelsInOrder ==
  LET IsSuccessful(a) == a.success
      kept == SelectSeq(passed_answers, IsSuccessful)
  IN  [n \in 1..Len(kept) |-> kept[n].model]

\* C34: the CorrectionRecords returned by correct_answers are in the same
\* relative order as the successful AnswerRecords they belong to, for every
\* mix of pass-through and corrected answers
C34_CorrectionOrder ==
  pc = "corrected" =>
    [n \in 1..Len(correction_results) |-> correction_results[n].model]
      = SuccessfulModelsInOrder

\* the position of a verifier in the verifier list (a list without
\* repetition)
VerifierPosition(model) ==
  CHOOSE v \in 1..Len(verification_models) : verification_models[v] = model

\* the answer and verifier positions of the n-th record emitted
EmittedPair(n) ==
  <<verified_for[n], VerifierPosition(verification_results[n].verification_model)>>

\* the pairs verify_answers emits a record for: the verifier is available
\* and its short name is not the short name of the answer's model
EmittingPairs ==
  { p \in VerificationPairs : is_model_available(verification_models[p[2]]) }

\* C37: in LLMLogicSystem.process_question, when all four stages have
\* completed the run's success flag equals the decision's success flag, and
\* a successful decision gives a run result with success true and no error
C37_RunSuccessIsDecisionSuccess ==
  (orchestrator = "LLMLogicSystem" /\ pc = "finished" /\ decision.returned) =>
    /\ result.success = decision.success
    /\ decision.success => result.error = Absent

\* the model invocations a stage has issued
CallsOf(stage) == { c \in client_calls : c[1] = stage }

\* C36: within each of the stages answering, verification and correction at
\* most one model invocation is in flight at any time (an invocation begins
\* only when no call is in progress), and a pause occurs between any two
\* consecutive invocations of the same stage
C36_OneAtATimeWithPause ==
  [][\A c \in client_calls' \ client_calls :
       c[1] \in {"answering", "verification", "correction"} =>
         /\ call = NoCall
         /\ call'.status = "running"
         /\ client_calls' = client_calls \cup {c}
         /\ CallsOf(c[1]) # {} => slept]_vars

C36_Witness ==
  /\ pc = "correct_wait"
  /\ call.status = "running"
  /\ Cardinality(CallsOf("answering")) = 2
  /\ Cardinality(CallsOf("verification")) = 2
  /\ Cardinality(CallsOf("correction")) = 2

\* C38: the configuration snapshot of the run result lists exactly the
\* answering and verification model lists and the correction and decision
\* models the stages used in that run, for every argument value including
\* an explicitly empty model list
C38_SnapshotIsWhatRan ==
  (orchestrator = "SystemCoordinator" /\ pc = "finished"
     /\ result.status = "returned") =>
    /\ system_config.answering_models = models
    /\ system_config.verification_models = verification_models
    /\ system_config.correction_model = correction_model
    /\ system_config.decision_model = decision_model

\* the stages after verification have the complete verification list
VerificationOver ==
  pc \in {"done", "correcting", "correct_wait", "corrected", "decide_wait",
          "decided", "finished"}

\* correct_answers has returned
CorrectionOver == pc \in {"corrected", "decide_wait", "decided", "finished"}

\* every record of correct_answers keeps the answer it was made for
AllPassThrough ==
  \A n \in 1..Len(correction_results) :
    /\ ~correction_results[n].needs_correction
    /\ ~correction_results[n].correction_applied
    /\ correction_results[n].revised_answer
         = correction_results[n].original_answer
    /\ correction_results[n].revised_reasoning
         = correction_results[n].original_reasoning

\* two answering models that both succeed, two verifiers whose short names
\* differ from both, and every verifier response with verdict Correct
TwoByTwoAllCorrect ==
  /\ Len(models) = 2
  /\ Len(verification_models) = 2
  /\ \A a \in 1..2, v \in 1..2 :
       _get_model_short_name(models[a])
         # _get_model_short_name(verification_models[v])
  /\ Len(answers) = 2
  /\ \A a \in 1..2 : answers[a].success
  /\ VerificationOver
  /\ \A n \in 1..Len(verification_results) :
       verification_results[n].verdict = "Correct"

\* C33: with two answering models that both succeed and two verifiers whose
\* short names differ from both, all returning verdict Correct, the run has
\* 4 verification records, 2 pass-through correction records and no
\* correction invocation, and a successful decision has answer_confidence 1,
\* consensus_rate 1 and agreement_level "High Consensus"
C33_AllCorrectScenario ==
  TwoByTwoAllCorrect =>
    /\ Len(verification_results) = 4
    /\ CallsOf("correction") = {}
    /\ correction_calls = << >>
    /\ CorrectionOver => (Len(correction_results) = 2 /\ AllPassThrough)
    /\ (decision.returned /\ decision.success) =>
         /\ RatEq(decision.answer_confidence, Rat(1, 1))
         /\ RatEq(decision.verification_consensus.consensus_rate, Rat(1, 1))
         /\ decision.verification_consensus.agreement_level = "High Consensus"

C33_Witness ==
  /\ TwoByTwoAllCorrect
  /\ pc = "finished"
  /\ decision.success
  /\ Len(correction_results) = 2

\* C35: the VerificationRecords are emitted answer by answer in the order
\* of the answer list and, within one answer, verifier by verifier in the
\* order of the verifier list; the record order is a function of the
\* inputs (the emitted pairs are exactly the pairs the lists determine)
C35_VerificationOrder ==
  /\ Len(verified_for) = Len(verification_results)
  /\ \A n, m \in 1..Len(verification_results) :
       n < m =>
         \/ EmittedPair(n)[1] < EmittedPair(m)[1]
         \/ /\ EmittedPair(n)[1] = EmittedPair(m)[1]
            /\ EmittedPair(n)[2] < EmittedPair(m)[2]
  /\ VerificationOver =>
       { EmittedPair(n) : n \in 1..Len(verification_results) } = EmittingPairs

C35_Witness ==
  /\ pc = "done"
  /\ Len(verification_results) = 4
  /\ \E n, m \in 1..Len(verification_results) :
       n < m /\ verified_for[n] = verified_for[m]
  /\ \E n, m \in 1..Len(verification_results) :
       n < m /\ verified_for[n] < verified_for[m]

\* every verifier has the short name of every answering model
AllSameShortName ==
  \A a \in 1..Len(models), v \in 1..Len(verification_models) :
    _get_model_short_name(models[a])
      = _get_model_short_name(verification_models[v])

\* C39: when every verifier has the same short name as every answering
\* model (the limited mode), the run has no verification record, every
\* successful answer gets a pass-through correction record without any
\* correction invocation, and a successful decision reports
\* answer_confidence 0.5, consensus_rate 0 and agreement_level "No Data"
C39_LimitedMode ==
  AllSameShortName =>
    /\ verification_results = << >>
    /\ CallsOf("verification") = {}
    /\ CallsOf("correction") = {}
    /\ CorrectionOver =>
         /\ [n \in 1..Len(correction_results) |-> correction_results[n].model]
              = SuccessfulModelsInOrder
         /\ AllPassThrough
    /\ (decision.returned /\ decision.success) =>
         /\ RatEq(decision.answer_confidence, Rat(1, 2))
         /\ decision.verification_consensus.consensus_rate.num = 0
         /\ decision.verification_consensus.agreement_level = "No Data"

C39_Witness ==
  /\ AllSameShortName
  /\ models = LIMITED_MODE_ANSWERING_MODELS
  /\ pc = "finished"
  /\ decision.success
  /\ Len(correction_results) = 1

====
